---- MODULE Spec2Model ----
(***************************************************************************)
(* A model of the swing-analysis core of GolfAnalyzer: phase detection     *)
(* (pose/swing_detection.py), the metrics calculator (pose/metrics.py),    *)
(* the scoring engine (reference/scoring.py) and the two-bone IK solver    *)
(* (pose/refinement/plane_of_swing.py).                                    *)
(*                                                                         *)
(* Real numbers are modelled exactly as scaled integers or as fractions;   *)
(* floating-point rounding is not modelled.  Each scale is named where it  *)
(* is introduced.                                                          *)
(***************************************************************************)
EXTENDS Integers, Sequences, FiniteSets, TLC

VARIABLES
  pc,       \* position in the analysis pipeline / which function has run
  poses,    \* the frame sequence handed to the core (List[FramePose])
  fps,      \* capture frame rate
  phases,   \* SwingPhases returned by detect_swing_phases (plus its locals)
  call,     \* arguments of the pure function under study
  ret       \* its result

vars == <<pc, poses, fps, phases, call, ret>>

\* Optional values: None is the empty tuple and a present value v is <<v>>.
None == <<>>

Some(v) == <<v>>

---------------------------------------------------------------------------
(* Generic helpers *)

Abs(x) == IF x < 0 THEN -x ELSE x

Min2(a, b) == IF a <= b THEN a ELSE b

Max2(a, b) == IF a >= b THEN a ELSE b

MinOf(S) == CHOOSE x \in S : \A y \in S : x <= y

\* Python's int(): truncation toward zero of the fraction a / b, b > 0.
TruncDiv(a, b) == IF a >= 0 THEN a \div b ELSE -((-a) \div b)

RECURSIVE SumF(_, _, _)
SumF(f, lo, hi) == IF lo > hi THEN 0 ELSE f[lo] + SumF(f, lo + 1, hi)

---------------------------------------------------------------------------
(* Frames.  A FramePose is modelled by the number of landmarks it carries  *)
(* (a joint is missing when its index is >= that number), a body shape     *)
(* that fixes the landmark coordinates, and its timestamp.  Coordinates    *)
(* are in hundredths of the normalised image size.                         *)

IDX_NOSE == 0

IDX_L_SHOULDER == 11

IDX_R_SHOULDER == 12

IDX_L_ELBOW == 13

IDX_R_ELBOW == 14

IDX_L_WRIST == 15

IDX_R_WRIST == 16

IDX_L_HIP == 23

IDX_R_HIP == 24

IDX_L_KNEE == 25

IDX_R_KNEE == 26

IDX_L_ANKLE == 27

IDX_R_ANKLE == 28

NumLandmarks == 33

\* Hands low (address-like), hands high (top-like, shoulders turned, trail
\* elbow folded to a right angle), and the low body with the two shoulders
\* on one image point.
Shapes == {"low", "high", "closed"}

LowBody ==
  (IDX_NOSE :> <<50, 20>>) @@
  (IDX_L_SHOULDER :> <<50, 30>>) @@ (IDX_R_SHOULDER :> <<50, 32>>) @@
  (IDX_L_ELBOW :> <<50, 50>>) @@ (IDX_R_ELBOW :> <<50, 51>>) @@
  (IDX_L_WRIST :> <<50, 70>>) @@ (IDX_R_WRIST :> <<50, 70>>) @@
  (IDX_L_HIP :> <<50, 54>>) @@ (IDX_R_HIP :> <<50, 56>>) @@
  (IDX_L_KNEE :> <<50, 72>>) @@ (IDX_R_KNEE :> <<50, 73>>) @@
  (IDX_L_ANKLE :> <<50, 90>>) @@ (IDX_R_ANKLE :> <<50, 90>>)

HighBody ==
  (IDX_NOSE :> <<50, 22>>) @@
  (IDX_L_SHOULDER :> <<56, 30>>) @@ (IDX_R_SHOULDER :> <<44, 30>>) @@
  (IDX_L_ELBOW :> <<48, 30>>) @@ (IDX_R_ELBOW :> <<42, 32>>) @@
  (IDX_L_WRIST :> <<40, 30>>) @@ (IDX_R_WRIST :> <<40, 30>>) @@
  LowBody

ClosedBody == (IDX_R_SHOULDER :> <<50, 30>>) @@ LowBody

Body(shape) ==
  IF shape = "low" THEN LowBody ELSE IF shape = "high" THEN HighBody ELSE ClosedBody

Landmark(shape, idx) ==
  IF idx \in DOMAIN LowBody
  THEN [x |-> Body(shape)[idx][1], y |-> Body(shape)[idx][2]]
  ELSE [x |-> 50, y |-> 50]

FrameMs == 1000 \div 30

Frame(n, shape, i) == [n_landmarks |-> n, shape |-> shape, timestamp_ms |-> i * FrameMs]

---------------------------------------------------------------------------
(* SwingDetector (pose/swing_detection.py).                                *)
(* wrist_ys is held in units of 1/YUnit, smooth_ys in units of 1/SUnit     *)
(* (the window-7 Savitzky-Golay weights have denominator 42), velocity in  *)
(* units of 1/(2*SUnit), smooth_velocity in units of 1/(70*2*SUnit).       *)

YUnit == 2 * 100

SUnit == 42 * YUnit

\* Least-squares quadratic weights of scipy's savgol_filter (mode 'interp'),
\* times 42 for window 7 and times 70 for window 5: row p+1 gives the fitted
\* value at window position p; positions past the centre mirror these rows.
H7 == << <<32, 15, 3, -4, -6, -3, 5>>,
         <<15, 12, 9, 6, 3, 0, -3>>,
         <<3, 9, 12, 12, 9, 3, -6>>,
         <<-4, 6, 12, 14, 12, 6, -4>> >>

H5 == << <<62, 18, -6, -10, 6>>,
         <<18, 26, 24, 12, -10>>,
         <<-6, 24, 34, 24, -6>> >>

SavgolCoef(H, w, p, j) == IF p <= w \div 2 THEN H[p + 1][j + 1] ELSE H[w - p][w - j]

\* Signals are tuples; At(s, i) is the code's s[i] (0-based).
At(s, i) == s[i + 1]

\* One output sample of savgol_filter(data, w, 2) on data[0..n-1], n >= w,
\* scaled by the weights' denominator.
SavgolAt(data, n, w, H, i) ==
  LET h == w \div 2
      start == IF i < h THEN 0 ELSE IF i >= n - h THEN n - w ELSE i - h
      p == i - start
      terms == [j \in 0..(w - 1) |-> SavgolCoef(H, w, p, j) * At(data, start + j)]
  IN SumF(terms, 0, w - 1)

RECURSIVE savgol_filter(_, _, _, _, _)
savgol_filter(data, n, w, H, k) ==
  IF k = 0 THEN <<>>
  ELSE Append(savgol_filter(data, n, w, H, k - 1), SavgolAt(data, n, w, H, k - 1))

RECURSIVE Scaled(_, _, _)
Scaled(data, scale, k) ==
  IF k = 0 THEN <<>> ELSE Append(Scaled(data, scale, k - 1), scale * data[k])

\* _smooth_savgol: the data unchanged when shorter than the window.
smooth_savgol(data, w, H, scale) ==
  IF Len(data) < w THEN Scaled(data, scale, Len(data))
  ELSE savgol_filter(data, Len(data), w, H, Len(data))

\* np.gradient, times 2: the first k samples.
RECURSIVE gradient(_, _)
gradient(s, k) ==
  IF k = 0 THEN <<>>
  ELSE LET n == Len(s)
           i == k - 1
           g == IF i = 0 THEN 2 * (At(s, 1) - At(s, 0))
                ELSE IF i = n - 1 THEN 2 * (At(s, n - 1) - At(s, n - 2))
                ELSE At(s, i + 1) - At(s, i - 1)
       IN Append(gradient(s, k - 1), g)

\* First index of the minimum / maximum of s[lo..hi] (np.argmin, np.argmax).
ArgMinFirst(s, lo, hi) ==
  CHOOSE i \in lo..hi : /\ \A k \in lo..hi : At(s, i) <= At(s, k)
                        /\ \A k \in lo..(i - 1) : At(s, k) > At(s, i)

ArgMaxFirst(s, lo, hi) ==
  CHOOSE i \in lo..hi : /\ \A k \in lo..hi : At(s, i) >= At(s, k)
                        /\ \A k \in lo..(i - 1) : At(s, k) < At(s, i)

\* The signal with 0.5 for every frame without wrist landmarks.
RECURSIVE WristYsDefault(_, _)
WristYsDefault(ps, k) ==
  IF k = 0 THEN <<>>
  ELSE LET prev == WristYsDefault(ps, k - 1)
           y == IF ps[k].n_landmarks > 16
                THEN Landmark(ps[k].shape, IDX_L_WRIST).y + Landmark(ps[k].shape, IDX_R_WRIST).y
                ELSE YUnit \div 2
       IN Append(prev, y)

\* The wrist-height signal of the first k frames: a frame without wrist
\* landmarks repeats the previous value (0.5 for the first frame).
RECURSIVE WristYs(_, _)
WristYs(ps, k) ==
  IF k = 0 THEN <<>>
  ELSE LET prev == WristYs(ps, k - 1)
           y == IF ps[k].n_landmarks > 16
                THEN Landmark(ps[k].shape, IDX_L_WRIST).y + Landmark(ps[k].shape, IDX_R_WRIST).y
                ELSE IF k = 1 THEN YUnit \div 2 ELSE prev[k - 1]
       IN Append(prev, y)

ZeroPhases ==
  [address_frame |-> 0, top_frame |-> 0, impact_frame |-> 0, finish_frame |-> 0]

\* The "for i in range(search_start, search_end)" scan for the lowest hands
\* with its early exit; returns impact_by_position.
RECURSIVE ImpactScan(_, _, _, _, _)
ImpactScan(s, i, search_end, max_y, best) ==
  IF i >= search_end THEN best
  ELSE IF At(s, i) > max_y THEN ImpactScan(s, i + 1, search_end, At(s, i), i)
  ELSE IF max_y > 0 /\ max_y - At(s, i) > (4 * SUnit) \div 100 THEN best
  ELSE ImpactScan(s, i + 1, search_end, max_y, best)

\* The safety checks and the clamp that end detect_swing_phases; raw keeps
\* the four values as detected.
SafetyChecksNoPush(address0, top0, impact0, finish0, n) ==
  LET finish2 == Min2(finish0, n - 1)
      impact2 == Min2(impact0, finish2)
      top2 == Min2(top0, impact2)
      address2 == Min2(address0, top2)
  IN [address_frame |-> Max2(0, address2), top_frame |-> Max2(0, top2),
      impact_frame |-> Max2(0, impact2), finish_frame |-> Max2(0, finish2),
      raw |-> <<address0, top0, impact0, finish0>>]

SafetyChecks(address0, top0, impact0, finish0, n) ==
  LET top1 == IF top0 <= address0 THEN address0 + 5 ELSE top0
      impact1 == IF impact0 <= top1 THEN top1 + 5 ELSE impact0
      finish1 == IF finish0 <= impact1 THEN impact1 + 5 ELSE finish0
      finish2 == Min2(finish1, n - 1)
      impact2 == Min2(impact1, finish2 - 1)
      top2 == Min2(top1, impact2 - 1)
      address2 == Min2(address0, top2 - 1)
  IN [address_frame |-> Max2(0, address2), top_frame |-> Max2(0, top2),
      impact_frame |-> Max2(0, impact2), finish_frame |-> Max2(0, finish2),
      raw |-> <<address0, top0, impact0, finish0>>]

\* The top without the comparison with the values 3 frames away.
DetectTopAtCrossing(smooth_ys, velocity, n) ==
  LET tops == {i \in 5..(n - 6) :
                 /\ At(smooth_ys, 0) - At(smooth_ys, i) > (8 * SUnit) \div 100
                 /\ At(velocity, i - 1) <= 0 /\ At(velocity, i) > 0}
  IN IF tops # {} THEN MinOf(tops)
     ELSE IF (n * 6) \div 10 > 0 THEN ArgMinFirst(smooth_ys, 0, (n * 6) \div 10 - 1)
     ELSE 0

\* Top of backswing: the first qualifying local minimum of the hands'
\* height, else the lowest value of the first 60% of the swing.
DetectTop(smooth_ys, velocity, n) ==
  LET tops == {i \in 5..(n - 6) :
                 /\ At(smooth_ys, 0) - At(smooth_ys, i) > (8 * SUnit) \div 100
                 /\ At(velocity, i - 1) <= 0 /\ At(velocity, i) > 0
                 /\ At(smooth_ys, i) < At(smooth_ys, i - 3)
                 /\ At(smooth_ys, i) < At(smooth_ys, i + 3)}
  IN IF tops # {} THEN MinOf(tops)
     ELSE IF (n * 6) \div 10 > 0 THEN ArgMinFirst(smooth_ys, 0, (n * 6) \div 10 - 1)
     ELSE 0

\* Address: the highest smooth_ys in the fps*2 frames before the top.
AddressStart(top0, f) == Max2(0, top0 - TruncDiv(f * 2, 1))

DetectAddress(smooth_ys, top0, f) ==
  IF \E i \in AddressStart(top0, f)..(top0 - 1) : At(smooth_ys, i) > -SUnit
  THEN ArgMaxFirst(smooth_ys, AddressStart(top0, f), top0 - 1)
  ELSE 0

\* Impact: the search window, the two candidates, their blend and the
\* off-by-one adjustment.
ImpactSearchEnd(top0, f, n) ==
  IF Min2(n - 5, top0 + TruncDiv(f, 2)) <= top0 + 3
  THEN Min2(n - 1, top0 + 3 + 15)
  ELSE Min2(n - 5, top0 + TruncDiv(f, 2))

ImpactByVelocity(smooth_velocity, search_start, search_end, by_position) ==
  IF search_end > search_start
  THEN ArgMaxFirst(smooth_velocity, search_start, search_end - 1)
  ELSE by_position

\* The pairs of frame indices below 32 for which 0.7 * p + 0.3 * v, evaluated
\* in double precision, is just below the whole number it equals exactly.
BlendFallsShort ==
  {<<1, 31>>, <<11, 1>>, <<12, 2>>, <<12, 22>>, <<14, 4>>, <<17, 7>>, <<19, 9>>,
   <<22, 2>>, <<23, 3>>, <<23, 13>>, <<24, 4>>, <<24, 14>>, <<28, 8>>, <<28, 18>>,
   <<29, 9>>, <<29, 19>>}

\* The blend in exact arithmetic.
ImpactBlendExact(by_position, by_velocity) ==
  IF Abs(by_position - by_velocity) <= 3 THEN by_position
  ELSE (7 * by_position + 3 * by_velocity) \div 10

\* int(0.7 * impact_by_position + 0.3 * impact_by_velocity)
ImpactBlend(by_position, by_velocity) ==
  IF Abs(by_position - by_velocity) <= 3 THEN by_position
  ELSE IF <<by_position, by_velocity>> \in BlendFallsShort
  THEN (7 * by_position + 3 * by_velocity) \div 10 - 1
  ELSE (7 * by_position + 3 * by_velocity) \div 10

ImpactAdjust(smooth_ys, impact, n) ==
  IF impact + 1 < n /\ At(smooth_ys, impact + 1) >= At(smooth_ys, impact)
  THEN impact + 1 ELSE impact

ImpactInWindow(smooth_ys, smooth_velocity, search_start, search_end, by_position, n) ==
  ImpactAdjust(smooth_ys,
               ImpactBlend(by_position,
                           ImpactByVelocity(smooth_velocity, search_start,
                                            search_end, by_position)),
               n)

DetectImpact(smooth_ys, smooth_velocity, top0, f, n) ==
  ImpactInWindow(smooth_ys, smooth_velocity, top0 + 3, ImpactSearchEnd(top0, f, n),
                 ImpactScan(smooth_ys, top0 + 3, ImpactSearchEnd(top0, f, n),
                            -SUnit, top0 + 3),
                 n)

\* The finish searched from impact + 4 on.
DetectFinishAfter(smooth_ys, impact0, n) ==
  IF \E i \in (impact0 + 4)..(n - 1) : At(smooth_ys, i) < SUnit
  THEN ArgMinFirst(smooth_ys, impact0 + 4, n - 1)
  ELSE n - 1

\* Finish: the lowest smooth_ys from impact + 3 on, else the last frame.
DetectFinish(smooth_ys, impact0, n) ==
  IF \E i \in (impact0 + 3)..(n - 1) : At(smooth_ys, i) < SUnit
  THEN ArgMinFirst(smooth_ys, impact0 + 3, n - 1)
  ELSE n - 1

PhasesFromImpact(smooth_ys, address0, top0, impact0, n) ==
  SafetyChecks(address0, top0, impact0, DetectFinish(smooth_ys, impact0, n), n)

PhasesFromTop(smooth_ys, smooth_velocity, top0, f, n) ==
  PhasesFromImpact(smooth_ys, DetectAddress(smooth_ys, top0, f), top0,
                   DetectImpact(smooth_ys, smooth_velocity, top0, f, n), n)

PhasesFromVelocity(smooth_ys, velocity, f, n) ==
  PhasesFromTop(smooth_ys, smooth_savgol(velocity, 5, H5, 70),
                DetectTop(smooth_ys, velocity, n), f, n)

PhasesFromSignal(smooth_ys, f, n) ==
  PhasesFromVelocity(smooth_ys, gradient(smooth_ys, n), f, n)

\* The heuristic body of detect_swing_phases for total_frames >= 10.
\* The record also carries the values held just before the safety checks.
HeuristicPhases(ps, f) ==
  PhasesFromSignal(smooth_savgol(WristYs(ps, Len(ps)), 7, H7, 42), f, Len(ps))

\* detect_swing_phases with the minimum frame count off by one.
detect_swing_phases_min9(ps, f) ==
  IF Len(ps) = 0 THEN ZeroPhases
  ELSE IF Len(ps) < 9 THEN ZeroPhases
  ELSE HeuristicPhases(ps, f)

\* detect_swing_phases(poses, fps) with hybrik_frames left at its default.
detect_swing_phases(ps, f) ==
  IF Len(ps) = 0 THEN ZeroPhases
  ELSE IF Len(ps) < 10 THEN ZeroPhases
  ELSE HeuristicPhases(ps, f)

---------------------------------------------------------------------------
(* Specification of phase detection: any frame sequence up to MaxFrames,   *)
(* any of the frame rates FpsValues.                                       *)

MaxFrames == 11

FpsValues == {-3, 4, 30}

\* Frames with both wrists (either shape) and a frame whose landmark list
\* stops before the wrists.
PhaseFrameKinds == {<<NumLandmarks, "low">>, <<NumLandmarks, "high">>, <<0, "low">>}

\* Frame sequences change kind at most MaxChanges times from one frame to
\* the next.
MaxChanges == 3

RECURSIVE KindSeqs(_, _, _)
KindSeqs(kinds, n, c) ==
  IF n = 0 THEN {<<>>}
  ELSE IF n = 1 THEN {<<k>> : k \in kinds}
  ELSE {Append(s, s[n - 1]) : s \in KindSeqs(kinds, n - 1, c)}
       \cup (IF c = 0 THEN {}
             ELSE UNION {{Append(s, k) : k \in kinds \ {s[n - 1]}} :
                           s \in KindSeqs(kinds, n - 1, c - 1)})

\* The frame sequences of n frames over the given kinds.
FramesOf(kinds, n, c) ==
  {[i \in 1..n |-> Frame(k[i][1], k[i][2], i - 1)] : k \in KindSeqs(kinds, n, c)}

PoseSeqs(n) == FramesOf(PhaseFrameKinds, n, MaxChanges)

InitPhases ==
  /\ pc = "start"
  /\ \E n \in 0..MaxFrames : poses \in PoseSeqs(n)
  /\ fps \in FpsValues
  /\ phases = None
  /\ call = None
  /\ ret = None

DetectSwingPhases ==
  /\ pc = "start"
  /\ pc' = "detected"
  /\ phases' = detect_swing_phases(poses, fps)
  /\ UNCHANGED <<poses, fps, call, ret>>

NextPhases == DetectSwingPhases

SpecPhases == InitPhases /\ [][NextPhases]_vars

---------------------------------------------------------------------------
(* Specification of the heuristic path with its local variables kept: the  *)
(* sequences of up to MaxHeuristicFrames frames that change kind at most   *)
(* MaxChanges times, and those of LongFrames frames that change kind at    *)
(* most LongChanges times, at 4 and at 30 frames a second.                 *)

MaxHeuristicFrames == 12

LongFrames == 20

LongChanges == 2

\* wrist_ys, and from 10 frames on smooth_ys, velocity and smooth_velocity.
HeuristicLocals(ps) ==
  IF Len(ps) < 10 THEN [wrist_ys |-> WristYs(ps, Len(ps))]
  ELSE LET wrist_ys == WristYs(ps, Len(ps))
           smooth_ys == smooth_savgol(wrist_ys, 7, H7, 42)
           velocity == gradient(smooth_ys, Len(ps))
       IN [wrist_ys |-> wrist_ys, smooth_ys |-> smooth_ys, velocity |-> velocity,
           smooth_velocity |-> smooth_savgol(velocity, 5, H5, 70)]

InitHeuristic ==
  /\ pc = "start"
  /\ \E n \in (1..MaxHeuristicFrames) \cup {LongFrames} :
       poses \in FramesOf(PhaseFrameKinds, n,
                          IF n <= MaxHeuristicFrames THEN MaxChanges ELSE LongChanges)
  /\ fps \in {4, 30}
  /\ phases = None
  /\ call = None
  /\ ret = None

DetectHeuristic ==
  /\ pc = "start"
  /\ pc' = "detected"
  /\ phases' = detect_swing_phases(poses, fps)
  /\ ret' = HeuristicLocals(poses)
  /\ UNCHANGED <<poses, fps, call>>

NextHeuristic == DetectHeuristic

SpecHeuristic == InitHeuristic /\ [][NextHeuristic]_vars

---------------------------------------------------------------------------
(* Scoring engine (reference/scoring.py).  Metric values, targets and     *)
(* tolerances are integers in one common unit; weights are in tenths; a    *)
(* numeric score is the exact fraction num/den with den > 0.               *)

Frac(n, d) == [num |-> n, den |-> d]

RECURSIVE GCD(_, _)
GCD(a, b) == IF b = 0 THEN a ELSE GCD(b, a % b)

\* The fraction n / d, d > 0, in lowest terms.
Reduced(n, d) == Frac(n \div GCD(Abs(n), d), d \div GCD(Abs(n), d))

FracLeq(a, b) == a.num * b.den <= b.num * a.den

FracEq(a, b) == a.num * b.den = b.num * a.den

FracAdd(a, b) ==
  Reduced(a.num * (b.den \div GCD(a.den, b.den)) + b.num * (a.den \div GCD(a.den, b.den)),
          a.den * (b.den \div GCD(a.den, b.den)))

FracScale(a, k) == Reduced(a.num * k, a.den)

\* The score computed from the signed difference instead of its magnitude.
calculate_smooth_score_signed(value, target, inner_tol, outer_tol) ==
  LET diff == value - target
      span == outer_tol - inner_tol
  IN IF diff <= inner_tol THEN Frac(100, 1)
     ELSE IF diff >= outer_tol THEN Frac(0, 1)
     ELSE IF span <= 0 THEN Frac(0, 1)
     ELSE Reduced(100 * (span - (diff - inner_tol)), span)

\* The score with the interpolation running the wrong way.
calculate_smooth_score_rising(value, target, inner_tol, outer_tol) ==
  LET diff == Abs(value - target)
      span == outer_tol - inner_tol
  IN IF diff <= inner_tol THEN Frac(100, 1)
     ELSE IF diff >= outer_tol THEN Frac(0, 1)
     ELSE IF span <= 0 THEN Frac(0, 1)
     ELSE Reduced(100 * (diff - inner_tol), span)

calculate_smooth_score(value, target, inner_tol, outer_tol) ==
  LET diff == Abs(value - target)
      span == outer_tol - inner_tol
  IN IF diff <= inner_tol THEN Frac(100, 1)
     ELSE IF diff >= outer_tol THEN Frac(0, 1)
     ELSE IF span <= 0 THEN Frac(0, 1)
     ELSE Reduced(100 * (span - (diff - inner_tol)), span)

---------------------------------------------------------------------------
(* Specification of calculate_smooth_score: two values scored against the  *)
(* same target and tolerances, 0 <= inner_tol < outer_tol as in every      *)
(* MetricTarget of reference_profiles.py.                                  *)

MaxVal == 4

MaxTol == 4

ScoreCalls ==
  {c \in [value : -MaxVal..MaxVal, other : -MaxVal..MaxVal, target : -MaxVal..MaxVal,
          inner_tol : 0..MaxTol, outer_tol : 0..MaxTol] : c.inner_tol < c.outer_tol}

InitScore ==
  /\ pc = "start"
  /\ call \in ScoreCalls
  /\ ret = None
  /\ poses = <<>>
  /\ fps = 0
  /\ phases = None

CalculateSmoothScore ==
  /\ pc = "start"
  /\ pc' = "scored"
  /\ ret' = [score |-> calculate_smooth_score(call.value, call.target,
                                              call.inner_tol, call.outer_tol),
             other_score |-> calculate_smooth_score(call.other, call.target,
                                                    call.inner_tol, call.outer_tol)]
  /\ UNCHANGED <<poses, fps, phases, call>>

NextScore == CalculateSmoothScore

SpecScore == InitScore /\ [][NextScore]_vars

---------------------------------------------------------------------------
(* Scorer.build_scores.  Weights are in tenths (1.5 is 15).                *)

DTL_WEIGHTS ==
  [tempo_ratio |-> 15, backswing_duration_ms |-> 0, downswing_duration_ms |-> 0,
   chest_turn_top_deg |-> 8, pelvis_turn_top_deg |-> 8, x_factor_top_deg |-> 10,
   spine_angle_address_deg |-> 8, spine_angle_impact_deg |-> 8,
   lead_arm_address_deg |-> 7, lead_arm_top_deg |-> 8, lead_arm_impact_deg |-> 0,
   trail_elbow_address_deg |-> 6, trail_elbow_top_deg |-> 10,
   trail_elbow_impact_deg |-> 8, knee_flex_left_address_deg |-> 7,
   knee_flex_right_address_deg |-> 7, head_sway_range |-> 10,
   early_extension_amount |-> 12, swing_path_index |-> 10,
   hand_height_at_top_index |-> 10, hand_width_at_top_index |-> 10,
   head_drop_cm |-> 10, head_rise_cm |-> 12]

FACE_ON_WEIGHTS ==
  [tempo_ratio |-> 15, chest_turn_top_deg |-> 8, pelvis_turn_top_deg |-> 8,
   x_factor_top_deg |-> 10, spine_angle_address_deg |-> 13,
   spine_angle_impact_deg |-> 13, lead_arm_impact_deg |-> 13,
   trail_elbow_top_deg |-> 13, knee_flex_left_address_deg |-> 10,
   knee_flex_right_address_deg |-> 10, head_sway_range |-> 14,
   early_extension_amount |-> 14, swing_path_index |-> 0,
   hand_height_at_top_index |-> 0, hand_width_at_top_index |-> 0,
   head_drop_cm |-> 12, head_rise_cm |-> 12]

MetricTarget(target, inner_tol, outer_tol, weight) ==
  [target |-> target, inner_tol |-> inner_tol, outer_tol |-> outer_tol, weight |-> weight]

MetricScore(value, score, target_min, target_max, weight) ==
  [value |-> value, score |-> score, target_min |-> target_min,
   target_max |-> target_max, weight |-> weight]

\* weight_map = FACE_ON_WEIGHTS if ref.view == "face_on" else DTL_WEIGHTS
WeightMap(view) == IF view = "face_on" THEN FACE_ON_WEIGHTS ELSE DTL_WEIGHTS

\* The weight taken from the profile even when the view table has the key.
EffectiveWeightProfileOnly(weight_map, key, target_weight) == target_weight

\* weight_map.get(key, target.weight)
EffectiveWeight(weight_map, key, target_weight) ==
  IF key \in DOMAIN weight_map THEN weight_map[key] ELSE target_weight

\* A missing value scored as the value 0.
MetricValueNoneAsZero(metrics_dict, key) ==
  IF key \in DOMAIN metrics_dict /\ metrics_dict[key] # None
  THEN metrics_dict[key] ELSE Some(0)

\* metrics_dict.get(key)
MetricValue(metrics_dict, key) ==
  IF key \in DOMAIN metrics_dict THEN metrics_dict[key] ELSE None

\* The bands with a score of exactly 70 counted as yellow.
ScoreBandAbove70(numeric_score) ==
  IF ~FracLeq(numeric_score, Frac(70, 1)) THEN "green"
  ELSE IF FracLeq(Frac(40, 1), numeric_score) THEN "yellow"
  ELSE "red"

ScoreBand(numeric_score) ==
  IF FracLeq(Frac(70, 1), numeric_score) THEN "green"
  ELSE IF FracLeq(Frac(40, 1), numeric_score) THEN "yellow"
  ELSE "red"

\* The aggregate without the division by the total weight.
OverallScoreNoDivide(total_weighted_score, total_weight) ==
  IF total_weight > 0
  THEN TruncDiv(total_weighted_score.num, total_weighted_score.den)
  ELSE 0

\* overall_score = int(total_weighted_score / total_weight) if total_weight > 0
OverallScore(total_weighted_score, total_weight) ==
  IF total_weight > 0
  THEN TruncDiv(total_weighted_score.num, total_weighted_score.den * total_weight)
  ELSE 0

\* One pass of the loop body for a metric whose value is present.
ScoreMetric(acc, key, target, val, numeric_score, weight) ==
  [metric_scores |->
     (key :> MetricScore(val, ScoreBand(numeric_score), target.target - target.inner_tol,
                         target.target + target.inner_tol, weight)) @@ acc.metric_scores,
   total_weighted_score |->
     IF weight > 0 THEN FracAdd(acc.total_weighted_score, FracScale(numeric_score, weight))
     ELSE acc.total_weighted_score,
   total_weight |-> IF weight > 0 THEN acc.total_weight + weight ELSE acc.total_weight]

ScoreEntry(acc, entry, val, weight_map) ==
  IF val = None THEN acc
  ELSE ScoreMetric(acc, entry.key, entry.target, val[1],
                   calculate_smooth_score(val[1], entry.target.target,
                                          entry.target.inner_tol, entry.target.outer_tol),
                   EffectiveWeight(weight_map, entry.key, entry.target.weight))

\* "for key, target in ref.targets.items()" over the first k entries.
RECURSIVE ScoreLoop(_, _, _, _)
ScoreLoop(targets, metrics_dict, weight_map, k) ==
  IF k = 0
  THEN [metric_scores |-> <<>>, total_weighted_score |-> Frac(0, 1), total_weight |-> 0]
  ELSE ScoreEntry(ScoreLoop(targets, metrics_dict, weight_map, k - 1), targets[k],
                  MetricValue(metrics_dict, targets[k].key), weight_map)

SwingScores(acc) ==
  [overall_score |-> OverallScore(acc.total_weighted_score, acc.total_weight),
   metric_scores |-> acc.metric_scores]

build_scores(metrics, ref) ==
  SwingScores(ScoreLoop(ref.targets, metrics, WeightMap(ref.view), Len(ref.targets)))

---------------------------------------------------------------------------
(* Specification of build_scores: a metrics table over MetricKeys and a    *)
(* profile holding any of those keys, in that order, scored under either   *)
(* view.  tempo_ratio is in both weight tables, backswing_duration_ms only *)
(* in DTL_WEIGHTS (at 0), swing_path_index is at 1.0 in DTL_WEIGHTS and at *)
(* 0 in FACE_ON_WEIGHTS.                                                   *)

MetricKeys == <<"tempo_ratio", "backswing_duration_ms", "swing_path_index">>

\* Every target is 3; the value lies MetricDiffs above it.
MetricDiffs == {0, 2, 3}

MetricValues == {None} \cup {Some(3 + d) : d \in MetricDiffs}

ProfileWeights == {-5, 0, 10}

Tolerances == {<<1, 3>>, <<1, 4>>, <<2, 2>>}

ProfileTargets ==
  {MetricTarget(3, t[1], t[2], w) : t \in Tolerances, w \in ProfileWeights}

\* The profiles' target tables: for each key either no entry or one target.
RECURSIVE TargetTables(_)
TargetTables(k) ==
  IF k = 0 THEN {<<>>}
  ELSE LET rest == TargetTables(k - 1)
       IN rest \cup {Append(ts, [key |-> MetricKeys[k], target |-> t]) :
                       ts \in rest, t \in ProfileTargets}

MetricsTables == [{MetricKeys[i] : i \in 1..Len(MetricKeys)} -> MetricValues]

InitBuild ==
  /\ pc = "start"
  /\ call \in [metrics : MetricsTables,
               ref : [view : {"dtl", "face_on"}, targets : TargetTables(Len(MetricKeys))]]
  /\ ret = None
  /\ poses = <<>>
  /\ fps = 0
  /\ phases = None

BuildScores ==
  /\ pc = "start"
  /\ pc' = "built"
  /\ ret' = build_scores(call.metrics, call.ref)
  /\ UNCHANGED <<poses, fps, phases, call>>

NextBuild == BuildScores

SpecBuild == InitBuild /\ [][NextBuild]_vars

\* build_scores on tables whose scores fall on and around 70 and 40: every
\* target is 0 with inner tolerance 0, so that a value v scores
\* 100 * (outer - v) / outer: 70 and 40 for 3 and 6 under an outer tolerance
\* of 10, 71.4, 57.1, 42.9 and 28.6 for 2 to 5 under one of 7.
MaxBandValue == 7

InitBands ==
  /\ pc = "start"
  /\ \E outer \in {7, 10}, view \in {"dtl", "face_on"} :
       \E metrics \in [{MetricKeys[i] : i \in 1..Len(MetricKeys)} ->
                         {None} \cup {Some(v) : v \in 0..MaxBandValue}] :
         call = [metrics |-> metrics,
                 ref |-> [view |-> view,
                          targets |-> [i \in 1..Len(MetricKeys) |->
                                         [key |-> MetricKeys[i],
                                          target |-> MetricTarget(0, 0, outer, 10)]]]]
  /\ ret = None
  /\ poses = <<>>
  /\ fps = 0
  /\ phases = None

SpecBands == InitBands /\ [][NextBuild]_vars

---------------------------------------------------------------------------
SmoothScoreShape ==
  pc = "scored" =>
    LET d == Abs(call.value - call.target)
    IN /\ d <= call.inner_tol => FracEq(ret.score, Frac(100, 1))
       /\ d >= call.outer_tol => FracEq(ret.score, Frac(0, 1))
       /\ (call.inner_tol < d /\ d < call.outer_tol) =>
             ret.score.num * (call.outer_tol - call.inner_tol)
               = 100 * (call.outer_tol - d) * ret.score.den
       /\ call.value = call.target => FracEq(ret.score, Frac(100, 1))
       /\ call.value \in {call.target + call.outer_tol, call.target - call.outer_tol}
             => FracEq(ret.score, Frac(0, 1))
       /\ ret.score.den > 0
       /\ FracLeq(Frac(0, 1), ret.score) /\ FracLeq(ret.score, Frac(100, 1))

\* A value below the target, strictly between the two tolerances, whose
\* score is strictly between 0 and 100.
SmoothScoreWitness ==
  /\ pc = "scored"
  /\ call.value < call.target
  /\ call.inner_tol < call.target - call.value
  /\ call.target - call.value < call.outer_tol
  /\ ~FracLeq(ret.score, Frac(0, 1)) /\ ~FracLeq(Frac(100, 1), ret.score)

(* C4: for fixed target and tolerances the score is non-increasing in the  *)
(* distance |value - target|.                                              *)
ScoreMonotone ==
  (pc = "scored" /\ Abs(call.value - call.target) <= Abs(call.other - call.target))
     => FracLeq(ret.other_score, ret.score)

\* Two values on opposite sides of the target, both between the tolerances,
\* the nearer one scoring strictly higher.
ScoreMonotoneWitness ==
  /\ pc = "scored"
  /\ call.value < call.target /\ call.other > call.target
  /\ call.inner_tol < call.target - call.value
  /\ call.target - call.value < call.other - call.target
  /\ call.other - call.target < call.outer_tol
  /\ ~FracLeq(ret.score, ret.other_score)

---------------------------------------------------------------------------
(* MetricsCalculator (pose/metrics.py), on the 2D path: _poses_to_frames   *)
(* never sets landmarks_3d, so use_hybrik is false in every call.          *)
(* Coordinates are in hundredths, angles in whole degrees; a metric before *)
(* rounding is an exact fraction in its own unit, a rounded metric an      *)
(* integer number of 1/MUnit.  The trigonometric functions are defined on  *)
(* the arguments the body shapes produce.                                  *)

MUnit == 100 * 100

\* A call that raised: the exception and the source line that raised it.
Raised(exception, line) == [exception |-> exception, line |-> line]

IsRaised(r) == "exception" \in DOMAIN r

\* A call that returned a plain value.
Returned(value) == [value |-> value]

FracAbs(a) == Frac(Abs(a.num), a.den)

\* The exact square root of a perfect square.
Sqrt(n) == CHOOSE r \in 0..n : r * r = n

\* math.degrees(math.asin(num / den)) for the ratios -1, 0 and 1.
AsinDeg(num, den) ==
  CASE num = 0 -> 0
    [] num = den -> 90
    [] num = -den -> -90

\* math.degrees(math.atan2(y, x)) for y >= 0 on the axes and the diagonals.
Atan2Deg(y, x) ==
  CASE y = 0 /\ x >= 0 -> 0
    [] y = 0 /\ x < 0 -> 180
    [] y > 0 /\ x = 0 -> 90
    [] y > 0 /\ x = y -> 45
    [] y > 0 /\ x = -y -> 135

\* math.degrees(math.acos(dot / sqrt(m1sq * m2sq))) for the cosines 0, +-1
\* and +-1/sqrt(2).
AcosDeg(dot, m1sq, m2sq) ==
  CASE dot = 0 -> 90
    [] dot > 0 /\ dot * dot = m1sq * m2sq -> 0
    [] dot < 0 /\ dot * dot = m1sq * m2sq -> 180
    [] dot > 0 /\ 2 * dot * dot = m1sq * m2sq -> 45
    [] dot < 0 /\ 2 * dot * dot = m1sq * m2sq -> 135

\* Python's round(): to the nearest integer, halves to the even one.
RoundHalfEven(num, den) ==
  LET q == num \div den
  IN IF 2 * (num - q * den) < den THEN q
     ELSE IF 2 * (num - q * den) > den THEN q + 1
     ELSE IF q % 2 = 0 THEN q ELSE q + 1

Pow10(d) == CASE d = 0 -> 1 [] d = 1 -> 10 [] d = 2 -> 100 [] d = 3 -> 1000 [] d = 4 -> 10000

\* safe_round(value, decimals), the result in units of 1/MUnit.
safe_round(value, decimals) ==
  IF value = None THEN None
  ELSE Some(RoundHalfEven(value[1].num * Pow10(decimals), value[1].den)
              * (MUnit \div Pow10(decimals)))

get_xy_from_frame(frame, idx) ==
  IF idx >= frame.n_landmarks THEN None ELSE Some(Landmark(frame.shape, idx))

AnyNone(points) == \E k \in 1..Len(points) : points[k] = None

\* _angle_3d on 2D points (z = 0).
angle_3d(p1, p2, p3) ==
  IF (p1.x - p2.x) * (p1.x - p2.x) + (p1.y - p2.y) * (p1.y - p2.y) = 0
     \/ (p3.x - p2.x) * (p3.x - p2.x) + (p3.y - p2.y) * (p3.y - p2.y) = 0
  THEN 0
  ELSE AcosDeg((p1.x - p2.x) * (p3.x - p2.x) + (p1.y - p2.y) * (p3.y - p2.y),
               (p1.x - p2.x) * (p1.x - p2.x) + (p1.y - p2.y) * (p1.y - p2.y),
               (p3.x - p2.x) * (p3.x - p2.x) + (p3.y - p2.y) * (p3.y - p2.y))

\* _normalize_angle_diff: the two while loops.
RECURSIVE NormalizeLoop(_)
NormalizeLoop(diff) ==
  IF diff > 180 THEN NormalizeLoop(diff - 360)
  ELSE IF diff < -180 THEN NormalizeLoop(diff + 360)
  ELSE diff

normalize_angle_diff(angle1, angle2) == NormalizeLoop(angle2 - angle1)

\* _rotation_from_separation_2d; max_sep2 is twice max_separation.
SeparationAngle(l, r, max_sep2) ==
  AsinDeg(Max2(-max_sep2, Min2(2 * (r.x - l.x), max_sep2)), max_sep2)

rotation_from_separation_2d(frame, left_idx, right_idx, max_sep2) ==
  IF get_xy_from_frame(frame, left_idx) = None \/ get_xy_from_frame(frame, right_idx) = None
  THEN None
  ELSE Some(SeparationAngle(get_xy_from_frame(frame, left_idx)[1],
                            get_xy_from_frame(frame, right_idx)[1], max_sep2))

TurnBetween(addr_angle, top_angle) ==
  IF addr_angle # None /\ top_angle # None
  THEN Some(normalize_angle_diff(addr_angle[1], top_angle[1]))
  ELSE None

\* max_separation = 0.055
compute_chest_turn(address_frame, top_frame) ==
  TurnBetween(rotation_from_separation_2d(address_frame, IDX_L_SHOULDER, IDX_R_SHOULDER, 11),
              rotation_from_separation_2d(top_frame, IDX_L_SHOULDER, IDX_R_SHOULDER, 11))

\* max_separation = 0.07
compute_pelvis_turn(address_frame, top_frame) ==
  TurnBetween(rotation_from_separation_2d(address_frame, IDX_L_HIP, IDX_R_HIP, 14),
              rotation_from_separation_2d(top_frame, IDX_L_HIP, IDX_R_HIP, 14))

SpineAngle(ls, rs, lh, rh) ==
  Atan2Deg(Abs((ls.x + rs.x) - (lh.x + rh.x)), -((ls.y + rs.y) - (lh.y + rh.y)))

compute_spine_angle(frame) ==
  IF AnyNone(<<get_xy_from_frame(frame, IDX_L_SHOULDER), get_xy_from_frame(frame, IDX_R_SHOULDER),
               get_xy_from_frame(frame, IDX_L_HIP), get_xy_from_frame(frame, IDX_R_HIP)>>)
  THEN None
  ELSE Some(Frac(SpineAngle(get_xy_from_frame(frame, IDX_L_SHOULDER)[1],
                            get_xy_from_frame(frame, IDX_R_SHOULDER)[1],
                            get_xy_from_frame(frame, IDX_L_HIP)[1],
                            get_xy_from_frame(frame, IDX_R_HIP)[1]), 1))

\* The angle at joint b of the chain a - b - c, None when a joint is missing.
JointAngle(frame, a, b, c) ==
  IF AnyNone(<<get_xy_from_frame(frame, a), get_xy_from_frame(frame, b),
               get_xy_from_frame(frame, c)>>)
  THEN None
  ELSE Some(Frac(angle_3d(get_xy_from_frame(frame, a)[1], get_xy_from_frame(frame, b)[1],
                          get_xy_from_frame(frame, c)[1]), 1))

compute_lead_arm(frame) == JointAngle(frame, IDX_L_SHOULDER, IDX_L_ELBOW, IDX_L_WRIST)

compute_trail_elbow(frame) == JointAngle(frame, IDX_R_SHOULDER, IDX_R_ELBOW, IDX_R_WRIST)

compute_knee_flex(frame) ==
  <<JointAngle(frame, IDX_L_HIP, IDX_L_KNEE, IDX_L_ANKLE),
    JointAngle(frame, IDX_R_HIP, IDX_R_KNEE, IDX_R_ANKLE)>>

\* The nose is at the same x in every body shape and the smoothing filter
\* reproduces a constant signal, so the range of 2 or more values is 0.
compute_head_sway_range(frames) ==
  IF Cardinality({k \in 1..Len(frames) : get_xy_from_frame(frames[k], IDX_NOSE) # None}) < 2
  THEN None
  ELSE Some(Frac(0, 1))

compute_early_extension(address_frame, impact_frame) ==
  IF AnyNone(<<get_xy_from_frame(address_frame, IDX_L_HIP),
               get_xy_from_frame(address_frame, IDX_R_HIP),
               get_xy_from_frame(impact_frame, IDX_L_HIP),
               get_xy_from_frame(impact_frame, IDX_R_HIP)>>)
  THEN None
  ELSE Some(Frac((get_xy_from_frame(address_frame, IDX_L_HIP)[1].y
                    + get_xy_from_frame(address_frame, IDX_R_HIP)[1].y)
                 - (get_xy_from_frame(impact_frame, IDX_L_HIP)[1].y
                    + get_xy_from_frame(impact_frame, IDX_R_HIP)[1].y), 200))

SwingPathFrom(top_wrist, transition_wrist, l_shoulder, r_shoulder) ==
  IF l_shoulder # None /\ r_shoulder # None /\ Abs(l_shoulder[1].x - r_shoulder[1].x) > 1
  THEN Some(Frac(transition_wrist.x - top_wrist.x, Abs(l_shoulder[1].x - r_shoulder[1].x)))
  ELSE Some(Frac((transition_wrist.x - top_wrist.x) * 5, 100))

\* transition_frame_idx of _compute_swing_path_index
TransitionIdx(top_frame_idx, impact_frame_idx) ==
  Min2(top_frame_idx + Max2(2, ((impact_frame_idx - top_frame_idx) * 2) \div 10),
       impact_frame_idx - 1)

\* _compute_swing_path_index with handedness "Right" (the lead wrist is the
\* left one).
compute_swing_path_index(frames, top_frame_idx, impact_frame_idx) ==
  IF Len(frames) = 0 \/ top_frame_idx >= Len(frames) \/ impact_frame_idx >= Len(frames)
  THEN None
  ELSE IF get_xy_from_frame(At(frames, top_frame_idx), IDX_L_WRIST) = None THEN None
  ELSE IF impact_frame_idx - top_frame_idx <= 2 THEN None
  ELSE IF get_xy_from_frame(At(frames, TransitionIdx(top_frame_idx, impact_frame_idx)),
                            IDX_L_WRIST) = None THEN None
  ELSE SwingPathFrom(get_xy_from_frame(At(frames, top_frame_idx), IDX_L_WRIST)[1],
                     get_xy_from_frame(At(frames, TransitionIdx(top_frame_idx, impact_frame_idx)),
                                       IDX_L_WRIST)[1],
                     get_xy_from_frame(At(frames, top_frame_idx), IDX_L_SHOULDER),
                     get_xy_from_frame(At(frames, top_frame_idx), IDX_R_SHOULDER))

HandHeightFrom(wrist, shoulder, l_hip) ==
  IF l_hip # None /\ Abs(shoulder.y - l_hip[1].y) > 1
  THEN Some(Frac(shoulder.y - wrist.y, Abs(shoulder.y - l_hip[1].y)))
  ELSE Some(Frac((shoulder.y - wrist.y) * 2, 100))

\* _compute_hand_height with handedness "Right".
compute_hand_height(frame) ==
  IF get_xy_from_frame(frame, IDX_L_WRIST) = None \/ get_xy_from_frame(frame, IDX_L_SHOULDER) = None
  THEN None
  ELSE HandHeightFrom(get_xy_from_frame(frame, IDX_L_WRIST)[1],
                      get_xy_from_frame(frame, IDX_L_SHOULDER)[1],
                      get_xy_from_frame(frame, IDX_L_HIP))

\* The squared shoulder width, and twice the distance from the wrist to the
\* midpoint of the shoulders.
ShoulderWidthSq(l_sh, r_sh) ==
  (l_sh.x - r_sh.x) * (l_sh.x - r_sh.x) + (l_sh.y - r_sh.y) * (l_sh.y - r_sh.y)

ChestDist2(wrist, l_sh, r_sh) ==
  Sqrt((2 * wrist.x - (l_sh.x + r_sh.x)) * (2 * wrist.x - (l_sh.x + r_sh.x))
       + (2 * wrist.y - (l_sh.y + r_sh.y)) * (2 * wrist.y - (l_sh.y + r_sh.y)))

HandWidthFrom(wrist, l_sh, r_sh) ==
  Some(Frac(ChestDist2(wrist, l_sh, r_sh), 2 * Sqrt(ShoulderWidthSq(l_sh, r_sh))))

\* With wrist and shoulders present and sh_width <= 0.01, _compute_hand_width
\* goes on to read l_hip, r_hip and diff, names it never assigns: NameError.
HandWidthRaises(frame) ==
  /\ ~AnyNone(<<get_xy_from_frame(frame, IDX_L_WRIST), get_xy_from_frame(frame, IDX_L_SHOULDER),
                get_xy_from_frame(frame, IDX_R_SHOULDER)>>)
  /\ ShoulderWidthSq(get_xy_from_frame(frame, IDX_L_SHOULDER)[1],
                     get_xy_from_frame(frame, IDX_R_SHOULDER)[1]) <= 1

\* _compute_hand_width with handedness "Right", where it returns.
compute_hand_width(frame) ==
  IF AnyNone(<<get_xy_from_frame(frame, IDX_L_WRIST), get_xy_from_frame(frame, IDX_L_SHOULDER),
               get_xy_from_frame(frame, IDX_R_SHOULDER)>>)
  THEN None
  ELSE HandWidthFrom(get_xy_from_frame(frame, IDX_L_WRIST)[1],
                     get_xy_from_frame(frame, IDX_L_SHOULDER)[1],
                     get_xy_from_frame(frame, IDX_R_SHOULDER)[1])

\* scale_cm_per_unit, per hundredth of the image: 50 cm over the torso length
\* when it is known, else 100 cm per unit.
HeadScale(l_sh, l_hip) ==
  IF l_sh # None /\ l_hip # None /\ Abs(l_sh[1].y - l_hip[1].y) > 1
  THEN Frac(50, Abs(l_sh[1].y - l_hip[1].y))
  ELSE Frac(1, 1)

HeadMovementFrom(addr_nose, top_nose, imp_nose, scale) ==
  [drop_cm |-> Some(FracScale(scale, top_nose.y - addr_nose.y)),
   rise_cm |-> Some(FracScale(scale, top_nose.y - imp_nose.y))]

compute_vertical_head_movement(address_frame, top_frame, impact_frame) ==
  IF AnyNone(<<get_xy_from_frame(address_frame, IDX_NOSE), get_xy_from_frame(top_frame, IDX_NOSE),
               get_xy_from_frame(impact_frame, IDX_NOSE)>>)
  THEN [drop_cm |-> Some(Frac(0, 1)), rise_cm |-> Some(Frac(0, 1))]
  ELSE HeadMovementFrom(get_xy_from_frame(address_frame, IDX_NOSE)[1],
                        get_xy_from_frame(top_frame, IDX_NOSE)[1],
                        get_xy_from_frame(impact_frame, IDX_NOSE)[1],
                        HeadScale(get_xy_from_frame(address_frame, IDX_L_SHOULDER),
                                  get_xy_from_frame(address_frame, IDX_L_HIP)))

\* The metrics of SwingMetrics that compute_metrics fills and the profiles
\* score.
MetricNames ==
  {"tempo_ratio", "backswing_duration_ms", "downswing_duration_ms",
   "chest_turn_top_deg", "pelvis_turn_top_deg", "x_factor_top_deg",
   "spine_angle_address_deg", "spine_angle_impact_deg",
   "lead_arm_address_deg", "lead_arm_top_deg", "lead_arm_impact_deg",
   "trail_elbow_address_deg", "trail_elbow_top_deg", "trail_elbow_impact_deg",
   "knee_flex_left_address_deg", "knee_flex_right_address_deg",
   "head_sway_range", "early_extension_amount", "swing_path_index",
   "hand_height_at_top_index", "hand_width_at_top_index",
   "head_drop_cm", "head_rise_cm",
   "shoulder_turn_top_deg", "hip_turn_top_deg",
   "spine_tilt_address_deg", "spine_tilt_impact_deg"}

\* _empty_metrics: every field at its default None.
empty_metrics == [k \in MetricNames |-> None]

\* The quotient without the test of downswing_sec: 0 over 0 and a division
\* by zero stand as they are.
TempoRatioUnguarded(t_address, t_top, t_impact) == Frac(t_top - t_address, t_impact - t_top)

\* tempo_ratio = backswing_sec / downswing_sec if downswing_sec > 0 else 0.0
TempoRatio(t_address, t_top, t_impact) ==
  IF t_impact - t_top > 0 THEN Frac(t_top - t_address, t_impact - t_top) ELSE Frac(0, 1)

AbsTurn(turn) == IF turn = None THEN None ELSE Some(Frac(Abs(turn[1]), 1))

\* The SwingMetrics(...) call that ends compute_metrics.
SwingMetrics(ps, ph, address_frame, top_frame, impact_frame, chest_turn_top, pelvis_turn_top) ==
  [tempo_ratio |->
     safe_round(Some(TempoRatio(address_frame.timestamp_ms, top_frame.timestamp_ms,
                                impact_frame.timestamp_ms)), 2),
   backswing_duration_ms |->
     safe_round(Some(Frac(top_frame.timestamp_ms - address_frame.timestamp_ms, 1)), 0),
   downswing_duration_ms |->
     safe_round(Some(Frac(impact_frame.timestamp_ms - top_frame.timestamp_ms, 1)), 0),
   chest_turn_top_deg |-> safe_round(AbsTurn(chest_turn_top), 1),
   pelvis_turn_top_deg |-> safe_round(AbsTurn(pelvis_turn_top), 1),
   x_factor_top_deg |->
     safe_round(Some(Frac(Abs(chest_turn_top[1]) - Abs(pelvis_turn_top[1]), 1)), 1),
   spine_angle_address_deg |-> safe_round(compute_spine_angle(address_frame), 1),
   spine_angle_impact_deg |-> safe_round(compute_spine_angle(impact_frame), 1),
   lead_arm_address_deg |-> safe_round(compute_lead_arm(address_frame), 1),
   lead_arm_top_deg |-> safe_round(compute_lead_arm(top_frame), 1),
   lead_arm_impact_deg |-> safe_round(compute_lead_arm(impact_frame), 1),
   trail_elbow_address_deg |-> safe_round(compute_trail_elbow(address_frame), 1),
   trail_elbow_top_deg |-> safe_round(compute_trail_elbow(top_frame), 1),
   trail_elbow_impact_deg |-> safe_round(compute_trail_elbow(impact_frame), 1),
   knee_flex_left_address_deg |-> safe_round(compute_knee_flex(address_frame)[1], 1),
   knee_flex_right_address_deg |-> safe_round(compute_knee_flex(address_frame)[2], 1),
   head_sway_range |-> safe_round(compute_head_sway_range(ps), 4),
   early_extension_amount |->
     safe_round(compute_early_extension(address_frame, impact_frame), 4),
   swing_path_index |->
     safe_round(compute_swing_path_index(ps, ph.top_frame, ph.impact_frame), 3),
   hand_height_at_top_index |-> safe_round(compute_hand_height(top_frame), 3),
   hand_width_at_top_index |-> safe_round(compute_hand_width(top_frame), 3),
   head_drop_cm |->
     safe_round(compute_vertical_head_movement(address_frame, top_frame, impact_frame).drop_cm, 1),
   head_rise_cm |->
     safe_round(compute_vertical_head_movement(address_frame, top_frame, impact_frame).rise_cm, 1),
   shoulder_turn_top_deg |-> safe_round(AbsTurn(chest_turn_top), 1),
   hip_turn_top_deg |-> safe_round(AbsTurn(pelvis_turn_top), 1),
   spine_tilt_address_deg |-> safe_round(compute_spine_angle(address_frame), 1),
   spine_tilt_impact_deg |-> safe_round(compute_spine_angle(impact_frame), 1)]

\* get_frame / get_pose: the frame at the index clamped into the sequence.
get_frame(ps, frame_idx) == ps[Min2(Max2(0, frame_idx), Len(ps) - 1) + 1]

\* The body of compute_metrics after the key frames are fetched.  Line 321
\* takes abs() of both turns: TypeError when either is None.
MetricsFromFrames(ps, ph, address_frame, top_frame, impact_frame, chest_turn_top, pelvis_turn_top) ==
  IF chest_turn_top = None \/ pelvis_turn_top = None THEN Raised("TypeError", 321)
  ELSE IF HandWidthRaises(top_frame) THEN Raised("NameError", 716)
  ELSE SwingMetrics(ps, ph, address_frame, top_frame, impact_frame,
                    chest_turn_top, pelvis_turn_top)

MetricsFromKeyFrames(ps, ph, address_frame, top_frame, impact_frame) ==
  MetricsFromFrames(ps, ph, address_frame, top_frame, impact_frame,
                    compute_chest_turn(address_frame, top_frame),
                    compute_pelvis_turn(address_frame, top_frame))

\* compute_metrics(poses, phases, fps): a metrics table or the exception
\* raised.
compute_metrics(ps, ph, f) ==
  IF Len(ps) = 0 THEN empty_metrics
  ELSE MetricsFromKeyFrames(ps, ph, get_frame(ps, ph.address_frame),
                            get_frame(ps, ph.top_frame), get_frame(ps, ph.impact_frame))

\* detect_handedness: the wrists are read without a length check, so a
\* frame whose landmark list stops before them raises IndexError.
WristX(pose) == Landmark(pose.shape, IDX_L_WRIST).x + Landmark(pose.shape, IDX_R_WRIST).x

detect_handedness(ps, ph) ==
  IF Len(ps) = 0 THEN Returned("Right")
  ELSE IF At(ps, ph.address_frame).n_landmarks <= IDX_R_WRIST
  THEN Raised("IndexError",
              IF At(ps, ph.address_frame).n_landmarks <= IDX_L_WRIST THEN 803 ELSE 804)
  ELSE IF At(ps, ph.top_frame).n_landmarks <= IDX_R_WRIST
  THEN Raised("IndexError", IF At(ps, ph.top_frame).n_landmarks <= IDX_L_WRIST THEN 803 ELSE 804)
  ELSE IF WristX(At(ps, ph.top_frame)) < WristX(At(ps, ph.address_frame))
  THEN Returned("Left")
  ELSE Returned("Right")

\* estimate_club_type: "bs_ms > 1000" with bs_ms None raises TypeError.
estimate_club_type(metrics) ==
  IF metrics.backswing_duration_ms = None THEN Raised("TypeError", 819)
  ELSE IF metrics.backswing_duration_ms[1] > 1000 * MUnit THEN Returned("Driver")
  ELSE IF metrics.backswing_duration_ms[1] > 800 * MUnit THEN Returned("Iron")
  ELSE Returned("Wedge")

---------------------------------------------------------------------------
(* Reference profiles (reference/reference_profiles.py): targets and       *)
(* tolerances in units of 1/MUnit, weights in tenths.                      *)

get_dtl_targets ==
  <<
    [key |-> "tempo_ratio", target |-> MetricTarget(30000, 3000, 10000, 10)],
    [key |-> "backswing_duration_ms", target |-> MetricTarget(7500000, 2000000, 5000000, 5)],
    [key |-> "downswing_duration_ms", target |-> MetricTarget(2500000, 500000, 1500000, 5)],
    [key |-> "chest_turn_top_deg", target |-> MetricTarget(850000, 150000, 350000, 8)],
    [key |-> "pelvis_turn_top_deg", target |-> MetricTarget(350000, 150000, 300000, 8)],
    [key |-> "x_factor_top_deg", target |-> MetricTarget(500000, 200000, 400000, 10)],
    [key |-> "spine_angle_address_deg", target |-> MetricTarget(350000, 150000, 300000, 8)],
    [key |-> "spine_angle_impact_deg", target |-> MetricTarget(350000, 150000, 300000, 8)],
    [key |-> "lead_arm_address_deg", target |-> MetricTarget(1700000, 150000, 400000, 7)],
    [key |-> "lead_arm_top_deg", target |-> MetricTarget(1600000, 250000, 600000, 8)],
    [key |-> "lead_arm_impact_deg", target |-> MetricTarget(1500000, 300000, 700000, 0)],
    [key |-> "trail_elbow_address_deg", target |-> MetricTarget(1550000, 200000, 500000, 6)],
    [key |-> "trail_elbow_top_deg", target |-> MetricTarget(1000000, 300000, 600000, 10)],
    [key |-> "trail_elbow_impact_deg", target |-> MetricTarget(1500000, 250000, 600000, 8)],
    [key |-> "knee_flex_left_address_deg", target |-> MetricTarget(1600000, 150000, 350000, 7)],
    [key |-> "knee_flex_right_address_deg", target |-> MetricTarget(1600000, 150000, 350000, 7)],
    [key |-> "head_sway_range", target |-> MetricTarget(40000, 40000, 100000, 10)],
    [key |-> "early_extension_amount", target |-> MetricTarget(0, 300, 800, 10)],
    [key |-> "head_drop_cm", target |-> MetricTarget(30000, 50000, 120000, 8)],
    [key |-> "head_rise_cm", target |-> MetricTarget(30000, 50000, 150000, 8)],
    [key |-> "swing_path_index", target |-> MetricTarget(-2000, 3000, 6000, 10)],
    [key |-> "hand_height_at_top_index", target |-> MetricTarget(2000, 2000, 4000, 8)],
    [key |-> "hand_width_at_top_index", target |-> MetricTarget(12000, 4000, 7000, 8)],
    [key |-> "shoulder_turn_top_deg", target |-> MetricTarget(850000, 150000, 350000, 8)],
    [key |-> "hip_turn_top_deg", target |-> MetricTarget(350000, 150000, 300000, 8)],
    [key |-> "spine_tilt_address_deg", target |-> MetricTarget(350000, 150000, 300000, 8)],
    [key |-> "spine_tilt_impact_deg", target |-> MetricTarget(350000, 150000, 300000, 8)]
  >>

get_face_on_targets ==
  <<
    [key |-> "tempo_ratio", target |-> MetricTarget(30000, 3000, 12000, 10)],
    [key |-> "backswing_duration_ms", target |-> MetricTarget(7500000, 1500000, 3000000, 5)],
    [key |-> "downswing_duration_ms", target |-> MetricTarget(2500000, 500000, 1000000, 5)],
    [key |-> "chest_turn_top_deg", target |-> MetricTarget(900000, 100000, 200000, 8)],
    [key |-> "pelvis_turn_top_deg", target |-> MetricTarget(450000, 100000, 200000, 8)],
    [key |-> "x_factor_top_deg", target |-> MetricTarget(450000, 150000, 250000, 10)],
    [key |-> "spine_angle_address_deg", target |-> MetricTarget(350000, 100000, 200000, 10)],
    [key |-> "spine_angle_impact_deg", target |-> MetricTarget(350000, 100000, 200000, 10)],
    [key |-> "lead_arm_address_deg", target |-> MetricTarget(1750000, 50000, 200000, 7)],
    [key |-> "lead_arm_top_deg", target |-> MetricTarget(1700000, 100000, 200000, 8)],
    [key |-> "lead_arm_impact_deg", target |-> MetricTarget(1700000, 100000, 300000, 10)],
    [key |-> "trail_elbow_address_deg", target |-> MetricTarget(1600000, 100000, 200000, 6)],
    [key |-> "trail_elbow_top_deg", target |-> MetricTarget(900000, 150000, 300000, 10)],
    [key |-> "trail_elbow_impact_deg", target |-> MetricTarget(1600000, 100000, 200000, 8)],
    [key |-> "knee_flex_left_address_deg", target |-> MetricTarget(1550000, 100000, 250000, 10)],
    [key |-> "knee_flex_right_address_deg", target |-> MetricTarget(1550000, 100000, 250000, 10)],
    [key |-> "head_sway_range", target |-> MetricTarget(30000, 20000, 50000, 12)],
    [key |-> "early_extension_amount", target |-> MetricTarget(0, 200, 500, 12)],
    [key |-> "head_drop_cm", target |-> MetricTarget(20000, 30000, 60000, 10)],
    [key |-> "head_rise_cm", target |-> MetricTarget(10000, 20000, 50000, 13)],
    [key |-> "hand_height_at_top_index", target |-> MetricTarget(2000, 1500, 3000, 10)],
    [key |-> "hand_width_at_top_index", target |-> MetricTarget(12000, 3000, 5000, 10)],
    [key |-> "swing_path_index", target |-> MetricTarget(-3000, 2000, 5000, 10)],
    [key |-> "shoulder_turn_top_deg", target |-> MetricTarget(900000, 100000, 200000, 8)],
    [key |-> "hip_turn_top_deg", target |-> MetricTarget(450000, 100000, 200000, 8)],
    [key |-> "spine_tilt_address_deg", target |-> MetricTarget(350000, 100000, 200000, 10)],
    [key |-> "spine_tilt_impact_deg", target |-> MetricTarget(350000, 100000, 200000, 10)]
  >>

ReferenceProfile(name, view, club_type, targets) ==
  [name |-> name, view |-> view, club_type |-> club_type, targets |-> targets]

\* view.lower() of the view strings of the model.
Lower(view) ==
  CASE view = "DTL" -> "dtl"
    [] view = "Face_On" -> "face_on"
    [] view = "FaceOn" -> "faceon"
    [] view = "FRONT" -> "front"
    [] OTHER -> view

\* club_type.title() of the club strings of the model.
Title(club_type) ==
  CASE club_type = "driver" -> "Driver"
    [] club_type = "iron" -> "Iron"
    [] club_type = "wedge" -> "Wedge"
    [] club_type = "7-iron" -> "7-Iron"
    [] OTHER -> club_type

\* The profile chosen from the view as it is written, without lower().
get_reference_profile_for_as_written(club_type, view) ==
  IF (IF view = None \/ view = Some("") THEN "dtl" ELSE view[1]) \in {"face_on", "faceon", "front"}
  THEN ReferenceProfile(<<"Pro", Title(club_type), "(Face-On)">>, "face_on", club_type,
                        get_face_on_targets)
  ELSE ReferenceProfile(<<"Pro", Title(club_type), "(DTL)">>, "dtl", club_type, get_dtl_targets)

\* get_reference_profile_for(club_type, view); the view is None or Some
\* string, and a name f"Pro {club_type.title()} (DTL)" is kept as its parts.
get_reference_profile_for(club_type, view) ==
  IF (IF view = None \/ view = Some("") THEN "dtl" ELSE Lower(view[1]))
       \in {"face_on", "faceon", "front"}
  THEN ReferenceProfile(<<"Pro", Title(club_type), "(Face-On)">>, "face_on", club_type,
                        get_face_on_targets)
  ELSE ReferenceProfile(<<"Pro", Title(club_type), "(DTL)">>, "dtl", club_type, get_dtl_targets)

\* get_default_profile()
get_default_profile == ReferenceProfile(<<"Default Pro (DTL)">>, "dtl", "driver", get_dtl_targets)

\* Specification of get_reference_profile_for: any club with a view that is
\* missing, empty, a spelling of one of the two viewpoints, or unknown.
ClubTypes == {"driver", "iron", "wedge", "Driver", "Iron", "7-iron", "putter"}

Views ==
  {None} \cup {Some(v) : v \in {"", "dtl", "DTL", "face_on", "Face_On", "faceon", "FaceOn",
                                 "front", "FRONT", "face-on", "side", "down_the_line"}}

InitProfile ==
  /\ pc = "start"
  /\ poses = <<>>
  /\ fps = 30
  /\ phases = None
  /\ call \in [club_type : ClubTypes, view : Views]
  /\ ret = None

GetReferenceProfileFor ==
  /\ pc = "start"
  /\ pc' = "profiled"
  /\ ret' = get_reference_profile_for(call.club_type, call.view)
  /\ UNCHANGED <<poses, fps, phases, call>>

NextProfile == GetReferenceProfileFor

SpecProfile == InitProfile /\ [][NextProfile]_vars

---------------------------------------------------------------------------
(* The swings of tests/test_scoring_refinement.py scored against the       *)
(* down-the-line profile, values in units of 1/MUnit.  Any of the metrics  *)
(* of LeftOutMetrics may be missing from the table ("Missing values        *)
(* should be ignored").                                                    *)

\* metrics of test_bad_dtl_swing
bad_dtl_swing ==
  [empty_metrics EXCEPT
     !.tempo_ratio = Some(15000),
     !.chest_turn_top_deg = Some(100000),
     !.pelvis_turn_top_deg = Some(50000),
     !.x_factor_top_deg = Some(50000),
     !.spine_angle_address_deg = Some(0),
     !.head_sway_range = Some(2000),
     !.early_extension_amount = Some(1500),
     !.lead_arm_top_deg = Some(1700000),
     !.knee_flex_left_address_deg = Some(1650000)]

\* metrics of test_good_dtl_swing
good_dtl_swing ==
  [empty_metrics EXCEPT
     !.tempo_ratio = Some(30000),
     !.chest_turn_top_deg = Some(388000),
     !.pelvis_turn_top_deg = Some(208000),
     !.x_factor_top_deg = Some(180000),
     !.spine_angle_address_deg = Some(180000),
     !.spine_angle_impact_deg = Some(166000),
     !.lead_arm_address_deg = Some(1700000),
     !.lead_arm_top_deg = Some(1710000),
     !.lead_arm_impact_deg = Some(1277000),
     !.trail_elbow_top_deg = Some(784000),
     !.knee_flex_left_address_deg = Some(1650000),
     !.knee_flex_right_address_deg = Some(1650000),
     !.head_sway_range = Some(580),
     !.early_extension_amount = Some(300)]

LeftOutMetrics ==
  {"pelvis_turn_top_deg", "x_factor_top_deg", "spine_angle_address_deg",
   "lead_arm_top_deg", "knee_flex_left_address_deg"}

InitSwings ==
  /\ pc = "start"
  /\ poses = <<>>
  /\ fps = 30
  /\ phases = None
  /\ \E swing \in {bad_dtl_swing, good_dtl_swing}, left_out \in SUBSET LeftOutMetrics,
        club_type \in {"driver", "iron"} :
       call = [metrics |-> [k \in MetricNames |-> IF k \in left_out THEN None ELSE swing[k]],
               club_type |-> club_type, view |-> "dtl"]
  /\ ret = None

\* ref = get_reference_profile_for(club_type=..., view="dtl")
\* scores = scorer.build_scores(metrics, ref)
ScoreSwing ==
  /\ pc = "start"
  /\ pc' = "swing_scored"
  /\ ret' = build_scores(call.metrics,
                         get_reference_profile_for(call.club_type, Some(call.view)))
  /\ UNCHANGED <<poses, fps, phases, call>>

NextSwings == ScoreSwing

SpecSwings == InitSwings /\ [][NextSwings]_vars

---------------------------------------------------------------------------
(* Skill assessment: app/services/skill_assessment.py.                     *)

\* "Pro" from 90, "Advanced" from 80, "Intermediate" from 60, else "Beginner".
SkillLevel(overall_score) ==
  IF overall_score >= 90 THEN "Pro"
  ELSE IF overall_score >= 80 THEN "Advanced"
  ELSE IF overall_score >= 60 THEN "Intermediate"
  ELSE "Beginner"

\* assess_skill_level: tempo_good and turn_good are computed before the
\* level and compare the metric with a number, a TypeError when it is None.
assess_skill_level(metrics, scores) ==
  IF metrics.tempo_ratio = None THEN Raised("TypeError", 25)
  ELSE IF metrics.shoulder_turn_top_deg = None THEN Raised("TypeError", 28)
  ELSE Returned(SkillLevel(scores.overall_score))

\* The overall scores of the test and those on either side of a threshold.
OverallScores == {-1, 0, 50, 59, 60, 61, 70, 79, 80, 81, 85, 89, 90, 91, 95, 100, 101}

InitSkill ==
  /\ pc = "start"
  /\ poses = <<>>
  /\ fps = 30
  /\ phases = None
  /\ \E tempo_ratio \in {None, Some(20000), Some(30000)},
        shoulder_turn_top_deg \in {None, Some(400000), Some(900000)},
        overall_score \in OverallScores :
       call = [metrics |-> [empty_metrics EXCEPT
                              !.tempo_ratio = tempo_ratio,
                              !.shoulder_turn_top_deg = shoulder_turn_top_deg],
               scores |-> [overall_score |-> overall_score, metric_scores |-> <<>>]]
  /\ ret = None

AssessSkillLevel ==
  /\ pc = "start"
  /\ pc' = "assessed"
  /\ ret' = assess_skill_level(call.metrics, call.scores)
  /\ UNCHANGED <<poses, fps, phases, call>>

NextSkill == AssessSkillLevel

SpecSkill == InitSkill /\ [][NextSkill]_vars

---------------------------------------------------------------------------
(* Analysis jobs: the request handlers of app/api/routes_jobs.py and the   *)
(* worker thread of app/workers/analysis_worker.py over the table          *)
(* analysis_jobs and the job queue.                                        *)
(*                                                                         *)
(* The handlers are coroutines without an await between their database     *)
(* statements, so the event loop runs one handler at a time; the worker is *)
(* a thread of its own and runs between any two statements of a handler.   *)
(* Every commit writes the columns the code assigned and no others; no     *)
(* statement reads the row again before it writes.                         *)
(*                                                                         *)
(* pc.handler and pc.worker are the positions of the two; call holds their *)
(* local variables, ret the shared state: the table, the queue, the        *)
(* stored swing sessions (by the job whose analysis stored them), the      *)
(* video files, and the jobs for which cancel_job answered "Job            *)
(* cancelled".                                                             *)

MaxJobs == 2

MaxCancels == 2

\* InMemoryQueue(maxsize=100)
QueueMaxSize == 100

analysis_jobs == ret.analysis_jobs

job_queue == ret.job_queue

AnalysisJob(status, error_message, session_id) ==
  [status |-> status, error_message |-> error_message, session_id |-> session_id]

InitJobs ==
  /\ pc = [handler |-> "idle", worker |-> "waiting"]
  /\ call = [job |-> None, message |-> None, response |-> None, requests |-> 0]
  /\ ret = [analysis_jobs |-> <<>>, job_queue |-> <<>>, swing_sessions |-> {},
            videos |-> {}, cancelled |-> {}]
  /\ poses = <<>>
  /\ fps = 30
  /\ phases = None

\* queue_analysis: the video is saved, the row committed as PENDING and the
\* message enqueued; a full queue turns the row to FAILED.
QueueAnalysis ==
  /\ pc.handler = "idle"
  /\ Len(analysis_jobs) < MaxJobs
  /\ LET job_id == Len(analysis_jobs) + 1
         success == Len(job_queue) < QueueMaxSize
     IN ret' = [ret EXCEPT
                  !.videos = @ \cup {job_id},
                  !.analysis_jobs =
                     Append(@, IF success THEN AnalysisJob("pending", None, None)
                               ELSE AnalysisJob("failed",
                                                Some("Server busy, please try again later"),
                                                None)),
                  !.job_queue = IF success THEN Append(@, job_id) ELSE @]
  /\ call' = [call EXCEPT !.response = Some(IF Len(job_queue) < QueueMaxSize THEN 200 ELSE 503)]
  /\ UNCHANGED <<pc, poses, fps, phases>>

\* cancel_job, lines 159-165: the row is read into the handler's session;
\* 404 without a row.
CancelJobQuery ==
  /\ pc.handler = "idle"
  /\ call.requests < MaxCancels
  /\ \E job_id \in 1..MaxJobs :
       IF job_id > Len(analysis_jobs)
       THEN /\ call' = [call EXCEPT !.requests = @ + 1, !.response = Some(404)]
            /\ UNCHANGED pc
       ELSE /\ call' = [call EXCEPT !.requests = @ + 1, !.response = None,
                                    !.job = Some([id |-> job_id,
                                                  status |-> analysis_jobs[job_id].status])]
            /\ pc' = [pc EXCEPT !.handler = "queried"]
  /\ UNCHANGED <<poses, fps, phases, ret>>

\* cancel_job, lines 167-184: the status that was read decides; FAILED and
\* the message are written to the row as it is at the commit.
CancelJobCommit ==
  /\ pc.handler = "queried"
  /\ pc' = [pc EXCEPT !.handler = "idle"]
  /\ LET job == call.job[1]
     IN IF job.status # "pending"
        THEN /\ call' = [call EXCEPT !.job = None, !.response = Some(400)]
             /\ UNCHANGED ret
        ELSE /\ call' = [call EXCEPT !.job = None, !.response = Some(200)]
             /\ ret' = [ret EXCEPT
                          !.analysis_jobs[job.id].status = "failed",
                          !.analysis_jobs[job.id].error_message = Some("Cancelled by user"),
                          !.videos = @ \ {job.id},
                          !.cancelled = @ \cup {job.id}]
  /\ UNCHANGED <<poses, fps, phases>>

\* _run: message = queue.dequeue(timeout=1.0)
Dequeue ==
  /\ pc.worker = "waiting"
  /\ job_queue # <<>>
  /\ pc' = [pc EXCEPT !.worker = "dequeued"]
  /\ call' = [call EXCEPT !.message = Some(Head(job_queue))]
  /\ ret' = [ret EXCEPT !.job_queue = Tail(@)]
  /\ UNCHANGED <<poses, fps, phases>>

\* _process_job, lines 150-160: the row becomes PROCESSING whatever its
\* status was.
ProcessJobStart ==
  /\ pc.worker = "dequeued"
  /\ IF call.message[1] > Len(analysis_jobs)
     THEN /\ pc' = [pc EXCEPT !.worker = "waiting"]
          /\ call' = [call EXCEPT !.message = None]
          /\ UNCHANGED ret
     ELSE /\ pc' = [pc EXCEPT !.worker = "processing"]
          /\ ret' = [ret EXCEPT !.analysis_jobs[call.message[1]].status = "processing"]
          /\ UNCHANGED call
  /\ UNCHANGED <<poses, fps, phases>>

\* _run_analysis raises before save_analysis (lines 227-381).
RunAnalysisRaises ==
  /\ pc.worker = "processing"
  /\ pc' = [pc EXCEPT !.worker = "raised"]
  /\ UNCHANGED <<poses, fps, phases, call, ret>>

\* _run_analysis, line 382: repo.save_analysis stores the swing session.
RunAnalysisSave ==
  /\ pc.worker = "processing"
  /\ pc' = [pc EXCEPT !.worker = "saved"]
  /\ ret' = [ret EXCEPT !.swing_sessions = @ \cup {call.message[1]}]
  /\ UNCHANGED <<poses, fps, phases, call>>

\* _run_analysis, lines 407-475: video_storage.save_video copies the
\* uploaded file and raises when it is gone.
RunAnalysisSaveVideo ==
  /\ pc.worker = "saved"
  /\ pc' = [pc EXCEPT !.worker = IF call.message[1] \in ret.videos THEN "analysed"
                                 ELSE "raised"]
  /\ UNCHANGED <<poses, fps, phases, call, ret>>

\* _process_job, lines 167-175
ProcessJobCompleted ==
  /\ pc.worker = "analysed"
  /\ pc' = [pc EXCEPT !.worker = "waiting"]
  /\ ret' = [ret EXCEPT !.analysis_jobs[call.message[1]].status = "completed",
                        !.analysis_jobs[call.message[1]].session_id = Some(call.message[1])]
  /\ call' = [call EXCEPT !.message = None]
  /\ UNCHANGED <<poses, fps, phases>>

\* The except branch without its writes: the row is left as it is.
ProcessJobFailedUnmarked ==
  /\ pc.worker = "raised"
  /\ pc' = [pc EXCEPT !.worker = "waiting"]
  /\ call' = [call EXCEPT !.message = None]
  /\ UNCHANGED <<poses, fps, phases, ret>>

\* _process_job, lines 179-193
ProcessJobFailed ==
  /\ pc.worker = "raised"
  /\ pc' = [pc EXCEPT !.worker = "waiting"]
  /\ ret' = [ret EXCEPT !.analysis_jobs[call.message[1]].status = "failed",
                        !.analysis_jobs[call.message[1]].error_message = Some("str(e)")]
  /\ call' = [call EXCEPT !.message = None]
  /\ UNCHANGED <<poses, fps, phases>>

NextJobs ==
  \/ QueueAnalysis
  \/ CancelJobQuery
  \/ CancelJobCommit
  \/ Dequeue
  \/ ProcessJobStart
  \/ RunAnalysisRaises
  \/ RunAnalysisSave
  \/ RunAnalysisSaveVideo
  \/ ProcessJobCompleted
  \/ ProcessJobFailed

SpecJobs == InitJobs /\ [][NextJobs]_vars

\* The steps of the worker thread: the loop of _run with one _process_job
\* per message.
WorkerStep ==
  \/ Dequeue
  \/ ProcessJobStart
  \/ RunAnalysisRaises
  \/ RunAnalysisSave
  \/ RunAnalysisSaveVideo
  \/ ProcessJobCompleted
  \/ ProcessJobFailed

\* The worker keeps running: _run loops while self._running, polls the
\* queue every second, and every statement of _process_job and of
\* _run_analysis returns or raises.  Requests arrive or not.
SpecJobsLive == SpecJobs /\ WF_vars(WorkerStep)

---------------------------------------------------------------------------
(* Personal bests: analyze_swing (app/api/routes_analyze.py), the worker's *)
(* _run_analysis (app/workers/analysis_worker.py) and delete_session over  *)
(* the sessions of one user, one club type and one view, which is what the *)
(* queries of both analyses filter by.                                     *)
(*                                                                         *)
(* analyze_swing is a coroutine without an await, so one call runs at a    *)
(* time on the event loop; the worker is a thread of its own and           *)
(* delete_session, a plain function, runs on the thread pool: both run     *)
(* between any two database statements of the others.  Each has its own    *)
(* database session (autoflush off): an assignment to a row reaches the    *)
(* table at the next flush or commit of that session, as an UPDATE of the  *)
(* assigned column by primary key, which raises when the row is gone.      *)
(*                                                                         *)
(* ret.swing_sessions is the table, call.handler and call.worker the       *)
(* locals of the two analyses.                                             *)

MaxSessions == 3

\* The overall scores of the analyses.
BestScores == {50, 60}

SwingSession(id, overall_score, is_personal_best) ==
  [id |-> id, overall_score |-> overall_score, is_personal_best |-> is_personal_best]

\* query(SwingSession).filter(...).order_by(overall_score.desc()).first():
\* None without a row, else a row of the highest score; which one of
\* several rows of equal score is left to the database.
MaxScoreSessions(rows) ==
  IF rows = {} THEN {None}
  ELSE {Some(r) : r \in {x \in rows : \A y \in rows : y.overall_score <= x.overall_score}}

\* "not max_score_session or scores.overall_score > max_score_session.overall_score"
IsNewBest(overall_score, max_score_session) ==
  max_score_session = None \/ overall_score > max_score_session[1].overall_score

\* The id whose flag the analysis clears: that of the row it read, when the
\* row was read as a personal best.
Unset(is_pb, max_score_session) ==
  IF is_pb /\ max_score_session # None /\ max_score_session[1].is_personal_best
  THEN {max_score_session[1].id} ELSE {}

SessionIds(rows) == {r.id : r \in rows}

\* UPDATE swing_sessions SET is_personal_best = value WHERE id IN ids
SetPersonalBest(rows, ids, value) ==
  {IF r.id \in ids THEN [r EXCEPT !.is_personal_best = value] ELSE r : r \in rows}

InitBest ==
  /\ pc = [handler |-> "idle", worker |-> "idle"]
  /\ call = [handler |-> None, worker |-> None]
  /\ ret = [swing_sessions |-> {}, next_id |-> 1]
  /\ poses = <<>>
  /\ fps = 30
  /\ phases = None

\* analyze_swing, lines 344-357: the best session so far is read and the
\* flag of the old best cleared in the handler's session.
AnalyzeQuery ==
  /\ pc.handler = "idle"
  /\ ret.next_id <= MaxSessions
  /\ \E overall_score \in BestScores, max_score_session \in MaxScoreSessions(ret.swing_sessions) :
       call' = [call EXCEPT !.handler =
                  [overall_score |-> overall_score,
                   is_pb |-> IsNewBest(overall_score, max_score_session),
                   unset |-> Unset(IsNewBest(overall_score, max_score_session),
                                   max_score_session)]]
  /\ pc' = [pc EXCEPT !.handler = "queried"]
  /\ UNCHANGED <<poses, fps, phases, ret>>

\* analyze_swing, lines 360-368: save_analysis inserts the session and
\* commits, which also writes the cleared flag; the request fails when the
\* row of that flag has been deleted.
AnalyzeSave ==
  /\ pc.handler = "queried"
  /\ IF call.handler.unset \subseteq SessionIds(ret.swing_sessions)
     THEN /\ ret' = [ret EXCEPT
                       !.swing_sessions =
                          SetPersonalBest(@, call.handler.unset, FALSE)
                            \cup {SwingSession(ret.next_id, call.handler.overall_score, FALSE)},
                       !.next_id = @ + 1]
          /\ call' = [call EXCEPT !.handler =
                        [overall_score |-> call.handler.overall_score,
                         is_pb |-> call.handler.is_pb,
                         db_session |-> ret.next_id]]
          /\ pc' = [pc EXCEPT !.handler = "saved"]
     ELSE /\ call' = [call EXCEPT !.handler = None]
          /\ pc' = [pc EXCEPT !.handler = "idle"]
          /\ UNCHANGED ret
  /\ UNCHANGED <<poses, fps, phases>>

\* analyze_swing, lines 370-373: the new session is flagged and committed.
AnalyzeFlag ==
  /\ pc.handler = "saved"
  /\ ret' = [ret EXCEPT
               !.swing_sessions =
                  IF call.handler.is_pb
                  THEN SetPersonalBest(@, {call.handler.db_session}, TRUE) ELSE @]
  /\ call' = [call EXCEPT !.handler = None]
  /\ pc' = [pc EXCEPT !.handler = "idle"]
  /\ UNCHANGED <<poses, fps, phases>>

\* _run_analysis, lines 382-389: save_analysis inserts the session.
WorkerSave ==
  /\ pc.worker = "idle"
  /\ ret.next_id <= MaxSessions
  /\ \E overall_score \in BestScores :
       /\ ret' = [ret EXCEPT
                    !.swing_sessions = @ \cup {SwingSession(ret.next_id, overall_score, FALSE)},
                    !.next_id = @ + 1]
       /\ call' = [call EXCEPT !.worker =
                     [overall_score |-> overall_score, db_session |-> ret.next_id]]
  /\ pc' = [pc EXCEPT !.worker = "saved"]
  /\ UNCHANGED <<poses, fps, phases>>

\* _run_analysis, lines 392-397: the best of the other sessions is read.
WorkerQuery ==
  /\ pc.worker = "saved"
  /\ \E max_score_session \in
          MaxScoreSessions({r \in ret.swing_sessions : r.id # call.worker.db_session}) :
       call' = [call EXCEPT !.worker =
                  [overall_score |-> call.worker.overall_score,
                   db_session |-> call.worker.db_session,
                   is_pb |-> IsNewBest(call.worker.overall_score, max_score_session),
                   unset |-> Unset(IsNewBest(call.worker.overall_score, max_score_session),
                                   max_score_session)]]
  /\ pc' = [pc EXCEPT !.worker = "queried"]
  /\ UNCHANGED <<poses, fps, phases, ret>>

\* _run_analysis, lines 399-405: the new session is flagged, the flag of
\* the old best cleared, both in one commit, which fails as a whole when
\* either row has been deleted.
WorkerCommit ==
  /\ pc.worker = "queried"
  /\ ret' = [ret EXCEPT
               !.swing_sessions =
                  IF /\ call.worker.is_pb
                     /\ call.worker.unset \cup {call.worker.db_session} \subseteq SessionIds(@)
                  THEN SetPersonalBest(SetPersonalBest(@, call.worker.unset, FALSE),
                                       {call.worker.db_session}, TRUE)
                  ELSE @]
  /\ call' = [call EXCEPT !.worker = None]
  /\ pc' = [pc EXCEPT !.worker = "idle"]
  /\ UNCHANGED <<poses, fps, phases>>

\* delete_session: the row is deleted and the deletion committed.
DeleteSession ==
  /\ \E s \in ret.swing_sessions :
       ret' = [ret EXCEPT !.swing_sessions = @ \ {s}]
  /\ UNCHANGED <<pc, poses, fps, phases, call>>

NextBest ==
  \/ AnalyzeQuery
  \/ AnalyzeSave
  \/ AnalyzeFlag
  \/ WorkerSave
  \/ WorkerQuery
  \/ WorkerCommit
  \/ DeleteSession

SpecBest == InitBest /\ [][NextBest]_vars

---------------------------------------------------------------------------
(* _normalize_angle_diff statement by statement, on doubles.  A double is  *)
(* either a whole number of degrees small enough for every sum and         *)
(* difference below to be exact, or one of the values                      *)
(* sign * (2^52 + j) * 2^11 just above 2^63, where neighbouring doubles    *)
(* are 2048 apart: adding or subtracting less than 1024 there rounds back  *)
(* to the same double.                                                     *)

Exact(n) == [kind |-> "exact", n |-> n]

Large(sign, j) == [kind |-> "large", sign |-> sign, j |-> j]

\* a - b in double precision; at most one of the two is large.
FloatSub(a, b) ==
  IF a.kind = "exact" /\ b.kind = "exact" THEN Exact(a.n - b.n)
  ELSE IF a.kind = "large" THEN a
  ELSE Large(-b.sign, b.j)

\* diff > 180
Above180(diff) == IF diff.kind = "exact" THEN diff.n > 180 ELSE diff.sign = 1

\* diff < -180
Below180(diff) == IF diff.kind = "exact" THEN diff.n < -180 ELSE diff.sign = -1

\* diff -= 360
Sub360(diff) == IF diff.kind = "exact" THEN Exact(diff.n - 360) ELSE diff

\* diff += 360
Add360(diff) == IF diff.kind = "exact" THEN Exact(diff.n + 360) ELSE diff

\* Whole degrees up to MaxTurns turns either way, in steps of 90, and the
\* values next to the two bounds.
MaxTurns == 2

SmallAngles ==
  {Exact(90 * k) : k \in (-4 * MaxTurns)..(4 * MaxTurns)}
    \cup {Exact(n) : n \in {-181, -179, 179, 181}}

LargeAngles == {Large(sign, j) : sign \in {-1, 1}, j \in {1, 2}}

InitNormalize ==
  /\ pc = "start"
  /\ \E angle1 \in SmallAngles \cup LargeAngles, angle2 \in SmallAngles \cup LargeAngles :
       /\ angle1 \in SmallAngles \/ angle2 \in SmallAngles
       /\ call = [angle1 |-> angle1, angle2 |-> angle2, diff |-> None]
  /\ ret = None
  /\ poses = <<>>
  /\ fps = 30
  /\ phases = None

\* diff = angle2 - angle1
NormalizeDiff ==
  /\ pc = "start"
  /\ pc' = "while_above"
  /\ call' = [call EXCEPT !.diff = Some(FloatSub(call.angle2, call.angle1))]
  /\ UNCHANGED <<poses, fps, phases, ret>>

\* while diff > 180: diff -= 360
WhileAbove ==
  /\ pc = "while_above"
  /\ IF Above180(call.diff[1])
     THEN /\ call' = [call EXCEPT !.diff = Some(Sub360(call.diff[1]))]
          /\ UNCHANGED pc
     ELSE /\ pc' = "while_below"
          /\ UNCHANGED call
  /\ UNCHANGED <<poses, fps, phases, ret>>

\* while diff < -180: diff += 360, then return diff
WhileBelow ==
  /\ pc = "while_below"
  /\ IF Below180(call.diff[1])
     THEN /\ call' = [call EXCEPT !.diff = Some(Add360(call.diff[1]))]
          /\ UNCHANGED <<pc, ret>>
     ELSE /\ pc' = "returned"
          /\ ret' = call.diff[1]
          /\ UNCHANGED call
  /\ UNCHANGED <<poses, fps, phases>>

NextNormalize ==
  \/ NormalizeDiff
  \/ WhileAbove
  \/ WhileBelow

SpecNormalize == InitNormalize /\ [][NextNormalize]_vars

\* The call keeps executing: its next statement is always taken.
SpecNormalizeLive == SpecNormalize /\ WF_vars(NextNormalize)

---------------------------------------------------------------------------
(* Specification of compute_metrics: up to MetricsMaxFrames frames of the  *)
(* kinds below and any phases with address <= top <= impact, the indices   *)
(* running one past the last frame to exercise the clamp of get_frame.     *)

MetricsMaxFrames == 4

\* At most MetricsChanges changes of kind from one frame to the next.
MetricsChanges == 2

\* Complete frames of each shape, an empty landmark list, and lists that
\* stop before the right shoulder, the hips, the knees and the ankles.
MetricsFrameKinds ==
  {<<NumLandmarks, "low">>, <<NumLandmarks, "high">>, <<NumLandmarks, "closed">>,
   <<0, "low">>, <<IDX_R_SHOULDER, "low">>, <<IDX_R_WRIST + 1, "high">>,
   <<IDX_L_KNEE, "low">>, <<IDX_L_ANKLE, "high">>}

PhasesUpTo(n) ==
  {[address_frame |-> x[1], top_frame |-> x[2], impact_frame |-> x[3], finish_frame |-> x[3]] :
     x \in {y \in (0..n) \X (0..n) \X (0..n) : y[1] <= y[2] /\ y[2] <= y[3]}}

InitMetrics ==
  /\ pc = "start"
  /\ \E n \in 0..MetricsMaxFrames :
       /\ phases \in PhasesUpTo(n)
       /\ poses \in FramesOf(MetricsFrameKinds, n, MetricsChanges)
  /\ fps = 30
  /\ call = None
  /\ ret = None

ComputeMetrics ==
  /\ pc = "start"
  /\ pc' = "measured"
  /\ ret' = compute_metrics(poses, phases, fps)
  /\ UNCHANGED <<poses, fps, phases, call>>

\* estimate_club_type called on the table compute_metrics returned.
EstimateClubType ==
  /\ pc = "measured"
  /\ ~IsRaised(ret)
  /\ pc' = "estimated"
  /\ ret' = [metrics |-> ret, club_type |-> estimate_club_type(ret)]
  /\ UNCHANGED <<poses, fps, phases, call>>

NextMetrics ==
  \/ ComputeMetrics
  \/ EstimateClubType

SpecMetrics == InitMetrics /\ [][NextMetrics]_vars

---------------------------------------------------------------------------
(* Specification of the tempo of compute_metrics: up to TempoMaxFrames     *)
(* frames and any three phase indices, in order or not, with the locals of *)
(* lines 306-312 kept beside the returned table.                           *)

TempoMaxFrames == 5

TempoChanges == 1

TempoFrameKinds == {<<NumLandmarks, "low">>, <<NumLandmarks, "high">>, <<0, "low">>}

AnyPhases(n) ==
  {[address_frame |-> x[1], top_frame |-> x[2], impact_frame |-> x[3], finish_frame |-> x[3]] :
     x \in (0..n) \X (0..n) \X (0..n)}

\* t_address, t_top, t_impact (in ms) and tempo_ratio as line 312 leaves it.
TempoLocals(ps, ph) ==
  [t_address |-> get_frame(ps, ph.address_frame).timestamp_ms,
   t_top |-> get_frame(ps, ph.top_frame).timestamp_ms,
   t_impact |-> get_frame(ps, ph.impact_frame).timestamp_ms,
   tempo_ratio |-> TempoRatio(get_frame(ps, ph.address_frame).timestamp_ms,
                              get_frame(ps, ph.top_frame).timestamp_ms,
                              get_frame(ps, ph.impact_frame).timestamp_ms)]

InitTempo ==
  /\ pc = "start"
  /\ \E n \in 1..TempoMaxFrames :
       /\ phases \in AnyPhases(n)
       /\ poses \in FramesOf(TempoFrameKinds, n, TempoChanges)
  /\ fps = 30
  /\ call = None
  /\ ret = None

ComputeTempo ==
  /\ pc = "start"
  /\ pc' = "tempo"
  /\ call' = TempoLocals(poses, phases)
  /\ ret' = compute_metrics(poses, phases, fps)
  /\ UNCHANGED <<poses, fps, phases>>

NextTempo == ComputeTempo

SpecTempo == InitTempo /\ [][NextTempo]_vars

---------------------------------------------------------------------------
(* Specification of the two auto-detection calls: detect_handedness on up  *)
(* to MaxAutoFrames frames with any phases inside them, estimate_club_type *)
(* on the empty metrics table with its backswing duration set or left out. *)

MaxAutoFrames == 3

\* Complete frames with the hands low or high (a wrist x of 50 or 40), a
\* frame that stops after the left wrist, and a frame without landmarks.
AutoFrameKinds ==
  {<<NumLandmarks, "low">>, <<NumLandmarks, "high">>, <<NumLandmarks, "closed">>,
   <<IDX_R_WRIST, "high">>, <<0, "low">>}

BackswingDurations == {None} \cup {Some(ms * MUnit) : ms \in {700, 800, 801, 1000, 1001, 1100}}

InitAuto ==
  /\ pc = "start"
  /\ \E n \in 0..MaxAutoFrames :
       /\ poses \in FramesOf(AutoFrameKinds, n, n)
       /\ phases \in IF n = 0 THEN {ZeroPhases} ELSE PhasesUpTo(n - 1)
  /\ fps = 30
  /\ call \in {[metrics |-> [empty_metrics EXCEPT !.backswing_duration_ms = d]] :
                 d \in BackswingDurations}
  /\ ret = None

AutoDetectHandedness ==
  /\ pc = "start"
  /\ pc' = "handed"
  /\ ret' = [handedness |-> detect_handedness(poses, phases)]
  /\ UNCHANGED <<poses, fps, phases, call>>

AutoEstimateClubType ==
  /\ pc = "handed"
  /\ pc' = "clubbed"
  /\ ret' = [handedness |-> ret.handedness, club_type |-> estimate_club_type(call.metrics)]
  /\ UNCHANGED <<poses, fps, phases, call>>

NextAuto ==
  \/ AutoDetectHandedness
  \/ AutoEstimateClubType

SpecAuto == InitAuto /\ [][NextAuto]_vars

---------------------------------------------------------------------------
(* Specification of the analysis pipeline after pose extraction            *)
(* (app/services/analysis.py, app/workers/analysis_worker.py): phase       *)
(* detection, metrics, auto-detection of handedness and club type when the *)
(* request does not give them, scoring.  The worker passes compute_metrics *)
(* a keyword argument hybrik_frames that its signature does not have; the  *)
(* service raises before phase detection when no frames were extracted.    *)

PipelineFrameKinds == {<<NumLandmarks, "low">>, <<NumLandmarks, "high">>, <<0, "low">>}

PipelineChanges == 2

Requests ==
  [handedness : {None, Some("Right")}, club_type : {None, Some("Iron")},
   view : {"dtl", "face_on"}, caller : {"service", "worker"}]

InitPipeline ==
  /\ pc = "start"
  /\ \E n \in 0..MaxFrames : poses \in FramesOf(PipelineFrameKinds, n, PipelineChanges)
  /\ fps = 30
  /\ phases = None
  /\ call \in Requests
  /\ call.caller = "service" => Len(poses) > 0
  /\ ret = [metrics |-> None, handedness |-> None, club_type |-> None,
            scores |-> None, error |-> None]

\* One stage of the pipeline: its result is stored in the given field, or
\* the exception it raised ends the analysis.
Stage(result, field, next_pc) ==
  IF IsRaised(result)
  THEN pc' = "raised" /\ ret' = [ret EXCEPT !.error = result]
  ELSE pc' = next_pc /\ ret' = [ret EXCEPT ![field] = result]

RunComputeMetrics ==
  /\ pc = "detected"
  /\ Stage(IF call.caller = "worker" THEN Raised("TypeError", 343)
           ELSE compute_metrics(poses, phases, fps),
           "metrics", "computed")
  /\ UNCHANGED <<poses, fps, phases, call>>

RunDetectHandedness ==
  /\ pc = "computed"
  /\ Stage(IF call.handedness # None THEN Returned(call.handedness[1])
           ELSE detect_handedness(poses, phases),
           "handedness", "handed")
  /\ UNCHANGED <<poses, fps, phases, call>>

RunEstimateClubType ==
  /\ pc = "handed"
  /\ Stage(IF call.club_type # None THEN Returned(call.club_type[1])
           ELSE estimate_club_type(ret.metrics),
           "club_type", "clubbed")
  /\ UNCHANGED <<poses, fps, phases, call>>

RunBuildScores ==
  /\ pc = "clubbed"
  /\ Stage(build_scores(ret.metrics, get_reference_profile_for(ret.club_type.value, Some(call.view))),
           "scores", "done")
  /\ UNCHANGED <<poses, fps, phases, call>>

NextPipeline ==
  \/ DetectSwingPhases
  \/ RunComputeMetrics
  \/ RunDetectHandedness
  \/ RunEstimateClubType
  \/ RunBuildScores

SpecPipeline == InitPipeline /\ [][NextPipeline]_vars

---------------------------------------------------------------------------
(* solve_two_bone_ik (pose/refinement/plane_of_swing.py).  Positions are   *)
(* lattice points and every length the function takes is a whole number or *)
(* a fraction, so that the arithmetic below is exact.  epsilon (1e-6) is    *)
(* smaller than any difference of two such lengths: its comparisons are    *)
(* decided as written below, and a quotient x / (d + epsilon) is taken as  *)
(* x / d, which the code's result matches to a relative 1e-6.              *)

FracMul(a, b) == Reduced(a.num * b.num, a.den * b.den)

FracNeg(a) == Frac(-a.num, a.den)

FracSub(a, b) == FracAdd(a, FracNeg(b))

\* a / b, b # 0
FracDiv(a, b) ==
  IF b.num > 0 THEN Reduced(a.num * b.den, a.den * b.num)
  ELSE Reduced(-(a.num * b.den), a.den * (-b.num))

IsSquare(n) == n >= 0 /\ \E r \in 0..n : r * r = n

\* The square root of a fraction in lowest terms that has a rational one.
FracSqrt(a) == Frac(Sqrt(a.num), Sqrt(a.den))

FracIsSquare(a) == IsSquare(a.num) /\ IsSquare(a.den)

\* Vectors are triples of fractions.
Vec(x, y, z) == <<Frac(x, 1), Frac(y, 1), Frac(z, 1)>>

VecAdd(a, b) == <<FracAdd(a[1], b[1]), FracAdd(a[2], b[2]), FracAdd(a[3], b[3])>>

VecSub(a, b) == <<FracSub(a[1], b[1]), FracSub(a[2], b[2]), FracSub(a[3], b[3])>>

VecScale(a, k) == <<FracMul(a[1], k), FracMul(a[2], k), FracMul(a[3], k)>>

\* np.dot
Dot(a, b) == FracAdd(FracMul(a[1], b[1]), FracAdd(FracMul(a[2], b[2]), FracMul(a[3], b[3])))

\* np.cross
Cross(a, b) ==
  <<FracSub(FracMul(a[2], b[3]), FracMul(a[3], b[2])),
    FracSub(FracMul(a[3], b[1]), FracMul(a[1], b[3])),
    FracSub(FracMul(a[1], b[2]), FracMul(a[2], b[1]))>>

\* np.linalg.norm
Norm(a) == FracSqrt(Dot(a, a))

HasNorm(a) == FracIsSquare(Dot(a, a))

FracLt(a, b) == a.num * b.den < b.num * a.den

\* cos_alpha by the law of cosines, clamped to [-1, 1].
CosAlpha(L1, L2, target_dist) ==
  LET c == FracDiv(FracSub(FracAdd(FracMul(L1, L1), FracMul(target_dist, target_dist)),
                           FracMul(L2, L2)),
                   FracScale(FracMul(L1, target_dist), 2))
  IN IF FracLt(c, Frac(-1, 1)) THEN Frac(-1, 1)
     ELSE IF FracLt(Frac(1, 1), c) THEN Frac(1, 1) ELSE c

\* sin(arccos(c)) squared
SinSq(c) == FracSub(Frac(1, 1), FracMul(c, c))

\* The default up vector of a straight arm: Y, or X when the target is
\* within 0.9 of vertical.
IdxUp(target_vec, target_dist) ==
  IF FracLt(FracScale(target_dist, 9), FracScale(FracAbs(target_vec[2]), 10))
  THEN Vec(1, 0, 0) ELSE Vec(0, 1, 0)

\* arm_plane_normal before it is normalised.
ArmPlaneNormal(arm_vec_1, arm_vec_2, target_vec, target_dist) ==
  IF Dot(Cross(arm_vec_1, arm_vec_2), Cross(arm_vec_1, arm_vec_2)).num = 0
  THEN Cross(target_vec, IdxUp(target_vec, target_dist))
  ELSE Cross(arm_vec_1, arm_vec_2)

\* Rodrigues' rotation of v by the angle with the given cosine and sine
\* around the unit vector k.
Rodrigues(v, k, cos_theta, sin_theta) ==
  VecAdd(VecAdd(VecScale(v, cos_theta), VecScale(Cross(k, v), sin_theta)),
         VecScale(k, FracMul(Dot(k, v), FracSub(Frac(1, 1), cos_theta))))

Normalised(v) == VecScale(v, FracDiv(Frac(1, 1), Norm(v)))

\* The reachable branch: the new joint is root + (root -> target, scaled to
\* L1, rotated by alpha around the arm plane normal); the new effector is
\* the target.
IKReach(root_pos, target_pos, target_vec, target_dist, L1, normal, cos_alpha) ==
  [new_joint |->
     VecAdd(root_pos,
            Rodrigues(VecScale(target_vec, FracDiv(L1, target_dist)), Normalised(normal),
                      cos_alpha, FracSqrt(SinSq(cos_alpha)))),
   new_effector |-> target_pos]

\* The target too far and the effector put on it, whatever the forearm's
\* length.
IKExtendToTarget(root_pos, target_vec, target_dist, L1, L2) ==
  [new_joint |-> VecAdd(root_pos, VecScale(target_vec, FracDiv(L1, target_dist))),
   new_effector |-> VecAdd(root_pos, target_vec)]

\* The target too far: the chain fully extended towards it.
IKExtend(root_pos, target_vec, target_dist, L1, L2) ==
  [new_joint |-> VecAdd(root_pos, VecScale(target_vec, FracDiv(L1, target_dist))),
   new_effector |->
     VecAdd(VecAdd(root_pos, VecScale(target_vec, FracDiv(L1, target_dist))),
            VecScale(target_vec, FracDiv(L2, target_dist)))]

IKFromLengths(root_pos, effector_pos, target_pos, joint_pos, L1, L2, target_vec, target_dist) ==
  IF ~FracLt(target_dist, FracAdd(L1, L2))
  THEN IKExtend(root_pos, target_vec, target_dist, L1, L2)
  ELSE IF FracLeq(target_dist, FracAbs(FracSub(L1, L2)))
  THEN [new_joint |-> joint_pos, new_effector |-> effector_pos]
  ELSE IKReach(root_pos, target_pos, target_vec, target_dist, L1,
               ArmPlaneNormal(VecSub(joint_pos, root_pos), VecSub(effector_pos, joint_pos),
                              target_vec, target_dist),
               CosAlpha(L1, L2, target_dist))

solve_two_bone_ik(root_pos, effector_pos, target_pos, joint_pos) ==
  IKFromLengths(root_pos, effector_pos, target_pos, joint_pos,
                Norm(VecSub(joint_pos, root_pos)), Norm(VecSub(effector_pos, joint_pos)),
                VecSub(target_pos, root_pos), Norm(VecSub(target_pos, root_pos)))

---------------------------------------------------------------------------
(* Specification of solve_two_bone_ik: a root, an upper arm and a forearm  *)
(* of whole length along lattice directions, a target at a whole distance  *)
(* from the root, on the arm's plane or off it, within reach or not.       *)

\* Coordinates of the bone vectors run over -IKRange..IKRange.
IKRange == 4

\* Lattice vectors of whole length in a coordinate plane.
Bones ==
  {Vec(v[1], v[2], v[3]) :
     v \in {w \in (-IKRange..IKRange) \X (-IKRange..IKRange) \X (-IKRange..IKRange) :
              /\ w # <<0, 0, 0>>
              /\ w[1] = 0 \/ w[2] = 0 \/ w[3] = 0
              /\ IsSquare(w[1] * w[1] + w[2] * w[2] + w[3] * w[3])}}

\* The upper arm points into the non-negative octant.
UpperArms == {b \in Bones : b[1].num >= 0 /\ b[2].num >= 0 /\ b[3].num >= 0}

Roots == {Vec(0, 0, 0), Vec(1, -2, 3)}

\* The roots the reachable branch takes are rational.
IKExact(arm_vec_1, arm_vec_2, target_vec) ==
  IF ~FracLt(Norm(target_vec), FracAdd(Norm(arm_vec_1), Norm(arm_vec_2)))
  THEN TRUE
  ELSE IF FracLeq(Norm(target_vec), FracAbs(FracSub(Norm(arm_vec_1), Norm(arm_vec_2))))
  THEN TRUE
  ELSE /\ FracIsSquare(SinSq(CosAlpha(Norm(arm_vec_1), Norm(arm_vec_2), Norm(target_vec))))
       /\ HasNorm(ArmPlaneNormal(arm_vec_1, arm_vec_2, target_vec, Norm(target_vec)))

InitIK ==
  /\ pc = "start"
  /\ poses = <<>>
  /\ fps = 30
  /\ phases = None
  /\ \E root_pos \in Roots, arm_vec_1 \in UpperArms, arm_vec_2 \in Bones,
        target_vec \in Bones \cup {Vec(0, 0, 0)} :
       /\ IKExact(arm_vec_1, arm_vec_2, target_vec)
       /\ call = [root_pos |-> root_pos,
                  joint_pos |-> VecAdd(root_pos, arm_vec_1),
                  effector_pos |-> VecAdd(VecAdd(root_pos, arm_vec_1), arm_vec_2),
                  target_pos |-> VecAdd(root_pos, target_vec)]
  /\ ret = None

SolveTwoBoneIK ==
  /\ pc = "start"
  /\ pc' = "solved"
  /\ ret' = solve_two_bone_ik(call.root_pos, call.effector_pos, call.target_pos, call.joint_pos)
  /\ UNCHANGED <<poses, fps, phases, call>>

NextIK == SolveTwoBoneIK

SpecIK == InitIK /\ [][NextIK]_vars

---------------------------------------------------------------------------
(* Kinematics (pose/kinematics.py): the 24-joint SMPL tree, forward        *)
(* kinematics, and the inverse that recovers the offsets from a pose and   *)
(* its rotations.  Matrices are triples of rows; entries are exact         *)
(* fractions.                                                              *)

NumJoints == 24

\* The table with the left knee (4) hung under the left ankle (7).
SMPL_PARENTS_KneeUnderAnkle ==
  <<-1, 0, 0, 0, 7, 2, 3, 4, 5, 6, 7, 8, 9, 9, 9, 12, 13, 14, 16, 17, 18, 19, 20, 21>>

\* SMPL_PARENTS[i], i from 0; -1 for the root.
SMPL_PARENTS ==
  <<-1, 0, 0, 0, 1, 2, 3, 4, 5, 6, 7, 8, 9, 9, 9, 12, 13, 14, 16, 17, 18, 19, 20, 21>>

\* Offsets are given in the source in metres to 8 decimals.
OffsetDen == 100000000

MeanOffset(x, y, z) == <<Reduced(x, OffsetDen), Reduced(y, OffsetDen), Reduced(z, OffsetDen)>>

SMPL_MEAN_OFFSETS ==
  <<MeanOffset(0, 0, 0),
    MeanOffset(5858135, -7724548, -2579638),
    MeanOffset(-6030973, -7477074, -2694701),
    MeanOffset(443945, 12440352, -3838522),
    MeanOffset(4325663, -38368791, -846453),
    MeanOffset(-4266040, -38617337, -1296848),
    MeanOffset(448844, 13795640, -2682033),
    MeanOffset(1905555, -42004550, -3456167),
    MeanOffset(-2012772, -42616620, -3744791),
    MeanOffset(226458, 5603239, 285505),
    MeanOffset(4105436, -6604639, 14035748),
    MeanOffset(-4011405, -6732602, 13564927),
    MeanOffset(-292163, 21242046, 3370688),
    MeanOffset(7179865, 11399969, -1889817),
    MeanOffset(-7114712, 11404169, -1819855),
    MeanOffset(35071, 7062404, 2261177),
    MeanOffset(11954173, -2285875, -653049),
    MeanOffset(-11605282, -2363410, -628341),
    MeanOffset(26648735, -1674588, -3275451),
    MeanOffset(-27105814, -1713843, -3052622),
    MeanOffset(25072098, -1396867, -1506389),
    MeanOffset(-25310679, -1336094, -1556372),
    MeanOffset(8444394, -1047750, -1291665),
    MeanOffset(-8830745, -1666065, -1029846)>>

\* matrix @ vector
MatVec(m, v) == <<Dot(m[1], v), Dot(m[2], v), Dot(m[3], v)>>

\* matrix.T
Transpose(m) ==
  <<<<m[1][1], m[2][1], m[3][1]>>, <<m[1][2], m[2][2], m[3][2]>>, <<m[1][3], m[2][3], m[3][3]>>>>

\* a @ b
MatMul(a, b) ==
  <<MatVec(Transpose(b), a[1]), MatVec(Transpose(b), a[2]), MatVec(Transpose(b), a[3])>>

\* A pass that turns the offset by the joint's own local rotation instead of
\* its parent's global rotation.
FKStepOwnRotation(st, rots, offsets, i) ==
  [global_rots |->
     Append(st.global_rots, MatMul(st.global_rots[SMPL_PARENTS[i + 1] + 1], rots[i + 1])),
   global_pos |->
     Append(st.global_pos,
            VecAdd(st.global_pos[SMPL_PARENTS[i + 1] + 1],
                   MatVec(rots[i + 1], offsets[i + 1])))]

\* One pass of the loop of forward_kinematics for joint i (from 0), given
\* the global rotations and positions of the joints before it.
FKStep(st, rots, offsets, i) ==
  [global_rots |->
     Append(st.global_rots, MatMul(st.global_rots[SMPL_PARENTS[i + 1] + 1], rots[i + 1])),
   global_pos |->
     Append(st.global_pos,
            VecAdd(st.global_pos[SMPL_PARENTS[i + 1] + 1],
                   MatVec(st.global_rots[SMPL_PARENTS[i + 1] + 1], offsets[i + 1])))]

RECURSIVE FKLoop(_, _, _, _)
FKLoop(rots, root_pos, offsets, i) ==
  IF i = 0 THEN [global_rots |-> <<rots[1]>>, global_pos |-> <<root_pos>>]
  ELSE LET st == FKLoop(rots, root_pos, offsets, i - 1) IN FKStep(st, rots, offsets, i)

\* forward_kinematics(rotations, root_position, offsets): the global joint
\* positions; offsets None stands for SMPL_MEAN_OFFSETS.
forward_kinematics(rotations, root_position, offsets) ==
  FKLoop(rotations, root_position,
         IF offsets = None THEN SMPL_MEAN_OFFSETS ELSE offsets, NumJoints - 1).global_pos

\* The global rotations rebuilt top-down from the local ones.
RECURSIVE GlobalRotations(_, _)
GlobalRotations(rots, i) ==
  IF i = 0 THEN <<rots[1]>>
  ELSE LET g == GlobalRotations(rots, i - 1)
       IN Append(g, MatMul(g[SMPL_PARENTS[i + 1] + 1], rots[i + 1]))

\* offset = inverse(parent_global_rotation) x (joint_pos - parent_pos); the
\* inverse of a rotation matrix is its transpose.  The root has no parent
\* and a zero offset.
OffsetFromPose(joints, global_rots, i) ==
  IF SMPL_PARENTS[i + 1] = -1 THEN Vec(0, 0, 0)
  ELSE MatVec(Transpose(global_rots[SMPL_PARENTS[i + 1] + 1]),
              VecSub(joints[i + 1], joints[SMPL_PARENTS[i + 1] + 1]))

RECURSIVE OffsetsUpTo(_, _, _)
OffsetsUpTo(joints, global_rots, i) ==
  IF i = 0 THEN <<OffsetFromPose(joints, global_rots, 0)>>
  ELSE Append(OffsetsUpTo(joints, global_rots, i - 1), OffsetFromPose(joints, global_rots, i))

calculate_offsets_from_pose(joints, rotations) ==
  OffsetsUpTo(joints, GlobalRotations(rotations, NumJoints - 1), NumJoints - 1)

---------------------------------------------------------------------------
(* Specification of the round trip: forward kinematics on a rotation set   *)
(* in which one or two joints are turned by a quarter turn about an axis,  *)
(* then the inverse on the pose it gave.                                   *)

Identity3 == <<Vec(1, 0, 0), Vec(0, 1, 0), Vec(0, 0, 1)>>

\* Quarter turns about x, y and z.
QuarterTurns ==
  {<<Vec(1, 0, 0), Vec(0, 0, -1), Vec(0, 1, 0)>>,
   <<Vec(0, 0, 1), Vec(0, 1, 0), Vec(-1, 0, 0)>>,
   <<Vec(0, -1, 0), Vec(1, 0, 0), Vec(0, 0, 1)>>}

\* Every joint at the identity but j1 and j2.
RotationSet(j1, r1, j2, r2) ==
  [i \in 1..NumJoints |-> IF i = j2 + 1 THEN r2 ELSE IF i = j1 + 1 THEN r1 ELSE Identity3]

\* The joints that are turned: the pelvis, the right hip, the third spine
\* joint, the left shoulder and the left elbow.
TurnedJoints == {0, 2, 9, 16, 18}

RotationSets ==
  {RotationSet(j1, r1, j2, r2) :
     j1 \in TurnedJoints, j2 \in TurnedJoints,
     r1 \in QuarterTurns \cup {Identity3}, r2 \in QuarterTurns}

\* Offsets of whole numbers that differ from joint to joint and axis to axis.
GridOffsets == [i \in 1..NumJoints |-> IF i = 1 THEN Vec(0, 0, 0) ELSE Vec(i, 2 - i, 3 * (i % 4) - 4)]

OffsetTables == {None, GridOffsets, [GridOffsets EXCEPT ![1] = Vec(1, 0, -2)]}

InitFK ==
  /\ pc = "start"
  /\ poses = <<>>
  /\ fps = 30
  /\ phases = None
  /\ call \in [rotations : RotationSets, root_position : {Vec(0, 0, 0), Vec(1, -2, 3)},
               offsets : OffsetTables]
  /\ ret = None

ForwardKinematics ==
  /\ pc = "start"
  /\ pc' = "posed"
  /\ ret' = [joints |-> forward_kinematics(call.rotations, call.root_position, call.offsets)]
  /\ UNCHANGED <<poses, fps, phases, call>>

CalculateOffsets ==
  /\ pc = "posed"
  /\ pc' = "inverted"
  /\ ret' = [joints |-> ret.joints,
             offsets |-> calculate_offsets_from_pose(ret.joints, call.rotations)]
  /\ UNCHANGED <<poses, fps, phases, call>>

NextFK ==
  \/ ForwardKinematics
  \/ CalculateOffsets

SpecFK == InitFK /\ [][NextFK]_vars

---------------------------------------------------------------------------
(***************************************************************************)
(* Pose smoothing: src/pose/smoothing.py.  Quaternions are sequences       *)
(* (x, y, z, w) of fractions, in scipy's order.  A frame is the sequence   *)
(* of its joints' rotation matrices.                                       *)
(***************************************************************************)

\* np.dot of two quaternions
QDot(a, b) ==
  FracAdd(FracAdd(FracMul(a[1], b[1]), FracMul(a[2], b[2])),
          FracAdd(FracMul(a[3], b[3]), FracMul(a[4], b[4])))

\* f * q
QScale(q, f) == <<FracMul(q[1], f), FracMul(q[2], f), FracMul(q[3], f), FracMul(q[4], f)>>

QAdd(a, b) == <<FracAdd(a[1], b[1]), FracAdd(a[2], b[2]), FracAdd(a[3], b[3]), FracAdd(a[4], b[4])>>

\* The matrix of NaN that a quaternion of norm 0 ends as.
NaNMatrix == "nan"

\* R.from_quat(q).as_matrix(): the rotation of q / |q|, computed from the
\* numerators a of q over the common denominator of its components.
as_matrix(q) ==
  LET L(x, y) == (x \div GCD(x, y)) * y
      D == L(L(q[1].den, q[2].den), L(q[3].den, q[4].den))
      a == [c \in 1..4 |-> q[c].num * (D \div q[c].den)]
      n == a[1] * a[1] + a[2] * a[2] + a[3] * a[3] + a[4] * a[4]
  IN IF n = 0 THEN NaNMatrix
     ELSE <<<<Reduced(n - 2 * (a[2] * a[2] + a[3] * a[3]), n),
              Reduced(2 * (a[1] * a[2] - a[3] * a[4]), n),
              Reduced(2 * (a[1] * a[3] + a[2] * a[4]), n)>>,
            <<Reduced(2 * (a[1] * a[2] + a[3] * a[4]), n),
              Reduced(n - 2 * (a[1] * a[1] + a[3] * a[3]), n),
              Reduced(2 * (a[2] * a[3] - a[1] * a[4]), n)>>,
            <<Reduced(2 * (a[1] * a[3] - a[2] * a[4]), n),
              Reduced(2 * (a[2] * a[3] + a[1] * a[4]), n),
              Reduced(n - 2 * (a[1] * a[1] + a[2] * a[2]), n)>>>>

\* The quaternion R.from_matrix builds before it normalises it: the largest
\* of the diagonal entries and the trace (the first one of equal ones, as
\* argmax has it) picks the component that is made positive.
QuatOfMatrix(M) ==
  LET trace == FracAdd(M[1][1], FracAdd(M[2][2], M[3][3]))
      decision == <<M[1][1], M[2][2], M[3][3], trace>>
      choice == CHOOSE c \in 1..4 :
                  /\ \A d \in 1..4 : FracLeq(decision[d], decision[c])
                  /\ \A d \in 1..(c - 1) : FracLt(decision[d], decision[c])
      i == choice
      j == (i % 3) + 1
      k == (j % 3) + 1
      diag == FracAdd(FracSub(Frac(1, 1), trace), FracScale(M[i][i], 2))
  IN IF choice = 4
     THEN <<FracSub(M[3][2], M[2][3]), FracSub(M[1][3], M[3][1]),
            FracSub(M[2][1], M[1][2]), FracAdd(Frac(1, 1), trace)>>
     ELSE [c \in 1..4 |->
             IF c = i THEN diag
             ELSE IF c = j THEN FracAdd(M[j][i], M[i][j])
             ELSE IF c = k THEN FracAdd(M[k][i], M[i][k])
             ELSE FracSub(M[k][j], M[j][k])]

\* R.from_matrix(M).as_quat()
from_matrix(M) ==
  LET q == QuatOfMatrix(M)
  IN QScale(q, FracDiv(Frac(1, 1), FracSqrt(QDot(q, q))))

\* The loop comparing each quaternion with the one before it as it came, not
\* as the loop left it.
RECURSIVE EnsureContinuityUnflipped(_, _)
EnsureContinuityUnflipped(quats, i) ==
  IF i = 0 THEN <<>>
  ELSE IF i = 1 THEN <<quats[1]>>
  ELSE LET done == EnsureContinuityUnflipped(quats, i - 1)
       IN Append(done, IF QDot(quats[i - 1], quats[i]).num < 0
                       THEN QScale(quats[i], Frac(-1, 1)) ELSE quats[i])

\* The loop of lines 40-42 up to frame i: a quaternion whose dot product
\* with the one before it (as that one was left) is negative changes sign.
RECURSIVE EnsureContinuity(_, _)
EnsureContinuity(quats, i) ==
  IF i = 0 THEN <<>>
  ELSE IF i = 1 THEN <<quats[1]>>
  ELSE LET done == EnsureContinuity(quats, i - 1)
       IN Append(done, IF QDot(done[i - 1], quats[i]).num < 0
                       THEN QScale(quats[i], Frac(-1, 1)) ELSE quats[i])

\* The weights exp(-k^2 / (2 sigma^2)) of the Gaussian kernel for
\* k = 0 .. int(4 sigma + 0.5), in hundredths.
KernelWeights(sigma) ==
  IF sigma = 1 THEN <<100, 61, 14, 1, 0>> ELSE <<100, 88, 61, 32, 14, 4, 1, 0, 0>>

\* The weight that frame f of n has in the filtered value of frame i: the
\* weights of the lags that reach f, a lag beyond an end reaching the frame
\* at that end (mode='nearest'), over the sum of all weights.
FrameWeight(sigma, n, i, f) ==
  LET w == KernelWeights(sigma)
      radius == Len(w) - 1
      reach == [k \in 1..(2 * radius + 1) |->
                  IF Max2(1, Min2(n, i + k - radius - 1)) = f
                  THEN w[Abs(k - radius - 1) + 1] ELSE 0]
  IN Reduced(SumF(reach, 1, 2 * radius + 1), w[1] + 2 * SumF(w, 2, Len(w)))

\* The weighted sum of the frames 1 .. f for the filtered value of frame i.
RECURSIVE FilterSum(_, _, _, _)
FilterSum(quats, sigma, i, f) ==
  LET term == QScale(quats[f], FrameWeight(sigma, Len(quats), i, f))
  IN IF f = 1 THEN term ELSE QAdd(FilterSum(quats, sigma, i, f - 1), term)

\* gaussian_filter1d(quats, sigma=sigma, axis=0, mode='nearest')
gaussian_filter1d(quats, sigma) ==
  [i \in 1..Len(quats) |-> FilterSum(quats, sigma, i, Len(quats))]

\* The quaternions of every joint after the filter (lines 30-50).  Line 50
\* divides each by its norm, which keeps its direction; the norm being
\* irrational in general, the quaternion is kept as the filter left it and
\* read up to its length.
SmoothedQuats(smpl_poses, sigma) ==
  [j \in 1..Len(smpl_poses[1]) |->
     gaussian_filter1d(
       EnsureContinuity([i \in 1..Len(smpl_poses) |-> from_matrix(smpl_poses[i][j])],
                        Len(smpl_poses)), sigma)]

\* The frames of rotation matrices of the smoothed quaternions (lines 53-56).
SmoothedPoses(quats_smooth) ==
  [i \in 1..Len(quats_smooth[1]) |->
     [j \in 1..Len(quats_smooth) |-> as_matrix(quats_smooth[j][i])]]

\* smooth_pose_sequence(smpl_poses, sigma)
smooth_pose_sequence(smpl_poses, sigma) ==
  IF smpl_poses = <<>> THEN <<>>
  ELSE SmoothedPoses(SmoothedQuats(smpl_poses, sigma))

MaxSmoothFrames == 4

\* Unit quaternions with rational components: no turn, a small turn, and
\* four that lie far from each other.
SampleQuats ==
  {<<Reduced(x[1], 9), Reduced(x[2], 9), Reduced(x[3], 9), Reduced(x[4], 9)>> :
     x \in {<<0, 0, 0, 9>>, <<0, 1, 4, 8>>, <<4, -1, 8, 0>>, <<2, -5, -4, 6>>,
            <<6, -4, 5, 2>>, <<0, 4, 7, -4>>}}

JointRotations == {as_matrix(q) : q \in SampleQuats}

\* Sequences of up to MaxSmoothFrames frames of one joint, and those of up to
\* two frames also with a second joint that goes through the rotations of
\* the first backwards.
SmoothPoses ==
  UNION {{[i \in 1..n |-> IF two = 2 THEN <<s[i], s[n + 1 - i]>> ELSE <<s[i]>>] :
            s \in [1..n -> JointRotations], two \in {k \in {1, 2} : k = 1 \/ n <= 2}} :
         n \in 0..MaxSmoothFrames}

InitSmooth ==
  /\ pc = "start"
  /\ poses = <<>>
  /\ fps = 30
  /\ phases = None
  /\ call \in [smpl_poses : SmoothPoses, sigma : {1, 2}]
  /\ ret = None

SmoothPoseSequence ==
  /\ pc = "start"
  /\ pc' = "smoothed"
  /\ ret' = [poses |-> smooth_pose_sequence(call.smpl_poses, call.sigma)]
  /\ UNCHANGED <<poses, fps, phases, call>>

NextSmooth == SmoothPoseSequence

SpecSmooth == InitSmooth /\ [][NextSmooth]_vars

---------------------------------------------------------------------------
(* The aggregate stated from the inputs of build_scores alone.             *)

\* The weight of a key under a view: the view table's when it lists the key,
\* else the profile's.
TableWeight(view, key, profile_weight) ==
  IF view = "face_on"
  THEN (IF key \in DOMAIN FACE_ON_WEIGHTS THEN FACE_ON_WEIGHTS[key] ELSE profile_weight)
  ELSE (IF key \in DOMAIN DTL_WEIGHTS THEN DTL_WEIGHTS[key] ELSE profile_weight)

EntryWeight(ref, i) == TableWeight(ref.view, ref.targets[i].key, ref.targets[i].target.weight)

Present(metrics, ref, i) ==
  /\ ref.targets[i].key \in DOMAIN metrics
  /\ metrics[ref.targets[i].key] # None

\* The profile entries that count: value present and weight > 0.
Counted(metrics, ref) ==
  {i \in 1..Len(ref.targets) : Present(metrics, ref, i) /\ EntryWeight(ref, i) > 0}

EntryScore(metrics, ref, i) ==
  calculate_smooth_score(metrics[ref.targets[i].key][1], ref.targets[i].target.target,
                         ref.targets[i].target.inner_tol, ref.targets[i].target.outer_tol)

RECURSIVE SumScoreWeight(_, _, _)
SumScoreWeight(metrics, ref, S) ==
  IF S = {} THEN Frac(0, 1)
  ELSE LET i == CHOOSE j \in S : TRUE
       IN FracAdd(FracScale(EntryScore(metrics, ref, i), EntryWeight(ref, i)),
                  SumScoreWeight(metrics, ref, S \ {i}))

RECURSIVE SumWeight(_, _)
SumWeight(ref, S) ==
  IF S = {} THEN 0
  ELSE LET i == CHOOSE j \in S : TRUE IN EntryWeight(ref, i) + SumWeight(ref, S \ {i})

\* q is the integer part of the non-negative quotient a / w, w > 0.
IsIntegerPart(q, a, w) ==
  /\ q * a.den * w <= a.num
  /\ a.num < (q + 1) * a.den * w

\* The profile with its i-th entry removed.
WithoutEntry(ref, i) ==
  [view |-> ref.view,
   targets |-> SubSeq(ref.targets, 1, i - 1) \o SubSeq(ref.targets, i + 1, Len(ref.targets))]

(* C5: build_scores sets the aggregate to sum(score * weight) / sum(weight) *)
(* over exactly the profile metrics whose value is present and whose       *)
(* weight is > 0, the weight of a metric being the view table's when the   *)
(* table lists the key and the profile's otherwise; the weight recorded    *)
(* for every scored metric is that weight.                                 *)
AggregateIsWeightedMean ==
  pc = "built" =>
    /\ Counted(call.metrics, call.ref) # {} =>
         IsIntegerPart(ret.overall_score,
                       SumScoreWeight(call.metrics, call.ref,
                                      Counted(call.metrics, call.ref)),
                       SumWeight(call.ref, Counted(call.metrics, call.ref)))
    /\ \A i \in 1..Len(call.ref.targets) :
         Present(call.metrics, call.ref, i) =>
           /\ call.ref.targets[i].key \in DOMAIN ret.metric_scores
           /\ ret.metric_scores[call.ref.targets[i].key].weight = EntryWeight(call.ref, i)

\* A face-on profile with all three metrics present: tempo_ratio counted at
\* the table's 1.5 over a profile weight of 0, backswing_duration_ms counted
\* at its profile weight, swing_path_index left out by the table's 0 over a
\* profile weight of 1.0; the aggregate strictly between 0 and 100.
AggregateWitness ==
  /\ pc = "built" /\ call.ref.view = "face_on" /\ Len(call.ref.targets) = 3
  /\ \A i \in 1..3 : Present(call.metrics, call.ref, i)
  /\ call.ref.targets[1].target.weight = 0
  /\ call.ref.targets[2].target.weight = 10
  /\ call.ref.targets[3].target.weight = 10
  /\ Counted(call.metrics, call.ref) = {1, 2}
  /\ ret.overall_score \in 1..99

\* The statement of C6 read with the weight held by the profile.
ZeroProfileWeightSameAsRemoved ==
  pc = "built" =>
    \A i \in 1..Len(call.ref.targets) :
      (call.ref.targets[i].target.weight = 0 \/ ~Present(call.metrics, call.ref, i)) =>
         ret.overall_score = build_scores(call.metrics, WithoutEntry(call.ref, i)).overall_score

(* C6: a metric X whose weight under the profile's view (the view table's  *)
(* when the table lists X, else the profile's) is 0 gives the same         *)
(* aggregate as the same profile with X removed, and so does a metric      *)
(* whose value is None.                                                    *)
ZeroWeightSameAsRemoved ==
  pc = "built" =>
    \A i \in 1..Len(call.ref.targets) :
      (EntryWeight(call.ref, i) = 0 \/ ~Present(call.metrics, call.ref, i)) =>
         ret.overall_score = build_scores(call.metrics, WithoutEntry(call.ref, i)).overall_score

\* A DTL profile of three metrics: tempo_ratio scores 100 and is the only one
\* counted, backswing_duration_ms is present, scores 0 and has weight 0 under
\* the view, swing_path_index has no value.
ZeroWeightWitness ==
  /\ pc = "built" /\ call.ref.view = "dtl" /\ Len(call.ref.targets) = 3
  /\ call.metrics["tempo_ratio"] = Some(3)
  /\ call.metrics["backswing_duration_ms"] = Some(6)
  /\ call.ref.targets[2].target.weight = 10
  /\ FracEq(EntryScore(call.metrics, call.ref, 2), Frac(0, 1))
  /\ call.metrics["swing_path_index"] = None
  /\ call.ref.targets[3].target.weight = 10
  /\ ret.overall_score = 100

(* C9: overall_score is an integer between 0 and 100 inclusive for every   *)
(* metrics table and every profile, and it is 0 when no metric is present  *)
(* with a positive weight.                                                 *)
OverallScoreRange ==
  pc = "built" =>
    /\ ret.overall_score \in 0..100
    /\ Counted(call.metrics, call.ref) = {} => ret.overall_score = 0

\* Two counted metrics whose weighted mean is not a whole number, so that
\* int() truncated it, next to a present metric that is not counted.
OverallScoreWitness ==
  /\ pc = "built" /\ Cardinality(Counted(call.metrics, call.ref)) = 2
  /\ \E i \in 1..Len(call.ref.targets) :
       Present(call.metrics, call.ref, i) /\ EntryWeight(call.ref, i) <= 0
  /\ ret.overall_score \in 1..99
  /\ ~FracEq(SumScoreWeight(call.metrics, call.ref, Counted(call.metrics, call.ref)),
             Frac(ret.overall_score * SumWeight(call.ref, Counted(call.metrics, call.ref)), 1))

---------------------------------------------------------------------------
(* Joints and failures of the metrics stages.                              *)

\* The joints each metric reads, as <<key frame, landmark index>>.
JointsNeeded(metric) ==
  CASE metric \in {"chest_turn_top_deg", "shoulder_turn_top_deg"} ->
         {"address", "top"} \X {IDX_L_SHOULDER, IDX_R_SHOULDER}
    [] metric \in {"pelvis_turn_top_deg", "hip_turn_top_deg"} ->
         {"address", "top"} \X {IDX_L_HIP, IDX_R_HIP}
    [] metric = "x_factor_top_deg" ->
         {"address", "top"} \X {IDX_L_SHOULDER, IDX_R_SHOULDER, IDX_L_HIP, IDX_R_HIP}
    [] metric \in {"spine_angle_address_deg", "spine_tilt_address_deg"} ->
         {"address"} \X {IDX_L_SHOULDER, IDX_R_SHOULDER, IDX_L_HIP, IDX_R_HIP}
    [] metric \in {"spine_angle_impact_deg", "spine_tilt_impact_deg"} ->
         {"impact"} \X {IDX_L_SHOULDER, IDX_R_SHOULDER, IDX_L_HIP, IDX_R_HIP}
    [] metric = "lead_arm_address_deg" -> {"address"} \X {IDX_L_SHOULDER, IDX_L_ELBOW, IDX_L_WRIST}
    [] metric = "lead_arm_top_deg" -> {"top"} \X {IDX_L_SHOULDER, IDX_L_ELBOW, IDX_L_WRIST}
    [] metric = "lead_arm_impact_deg" -> {"impact"} \X {IDX_L_SHOULDER, IDX_L_ELBOW, IDX_L_WRIST}
    [] metric = "trail_elbow_address_deg" ->
         {"address"} \X {IDX_R_SHOULDER, IDX_R_ELBOW, IDX_R_WRIST}
    [] metric = "trail_elbow_top_deg" -> {"top"} \X {IDX_R_SHOULDER, IDX_R_ELBOW, IDX_R_WRIST}
    [] metric = "trail_elbow_impact_deg" ->
         {"impact"} \X {IDX_R_SHOULDER, IDX_R_ELBOW, IDX_R_WRIST}
    [] metric = "knee_flex_left_address_deg" -> {"address"} \X {IDX_L_HIP, IDX_L_KNEE, IDX_L_ANKLE}
    [] metric = "knee_flex_right_address_deg" -> {"address"} \X {IDX_R_HIP, IDX_R_KNEE, IDX_R_ANKLE}
    [] metric = "early_extension_amount" -> {"address", "impact"} \X {IDX_L_HIP, IDX_R_HIP}
    [] metric = "swing_path_index" -> {"top"} \X {IDX_L_WRIST}
    [] metric = "hand_height_at_top_index" -> {"top"} \X {IDX_L_WRIST, IDX_L_SHOULDER}
    [] metric = "hand_width_at_top_index" ->
         {"top"} \X {IDX_L_WRIST, IDX_L_SHOULDER, IDX_R_SHOULDER}
    [] metric = "head_drop_cm" -> {"address", "top"} \X {IDX_NOSE}
    [] metric = "head_rise_cm" -> {"top", "impact"} \X {IDX_NOSE}
    [] OTHER -> {}

\* The key frame compute_metrics reads for a phase.
KeyFrame(role) ==
  get_frame(poses, CASE role = "address" -> phases.address_frame
                     [] role = "top" -> phases.top_frame
                     [] role = "impact" -> phases.impact_frame)

JointMissing(need) == get_xy_from_frame(KeyFrame(need[1]), need[2]) = None

Affected(metric) == \E need \in JointsNeeded(metric) : JointMissing(need)

(* C7: compute_metrics on a sequence in which the address, top or impact   *)
(* frame lacks a joint some metric needs does not raise; every metric that *)
(* needs a missing joint is None and every metric whose joints are all     *)
(* there, those of the tempo among them, has a value.                      *)
MissingJointNeverRaises ==
  (pc = "measured" /\ Len(poses) > 0 /\ \E m \in MetricNames : Affected(m)) =>
    /\ ~IsRaised(ret)
    /\ \A m \in MetricNames \ {"head_sway_range", "swing_path_index"} :
         Affected(m) <=> ret[m] = None

(* C8: for a sequence of fewer than 10 frames, the empty one included, no  *)
(* stage after phase detection raises: compute_metrics returns a table,    *)
(* all None for the empty sequence, handedness and club type get a value   *)
(* and build_scores returns scores.                                        *)
ShortSequenceStagesComplete ==
  Len(poses) < 10 =>
    /\ pc # "raised"
    /\ (pc \in {"computed", "handed", "clubbed", "done"} /\ Len(poses) = 0) =>
         \A m \in MetricNames : ret.metrics[m] = None
    /\ pc = "done" =>
         /\ ret.handedness.value \in {"Left", "Right"}
         /\ ret.club_type.value \in {"Driver", "Iron", "Wedge"}
         /\ ret.scores.overall_score \in 0..100

\* The distance from a to b, squared.
DistSq(a, b) == Dot(VecSub(b, a), VecSub(b, a))

\* The target is within reach of the chain: |L1 - L2| <= distance <= L1 + L2.
Reachable(c) ==
  /\ FracLeq(Norm(VecSub(c.target_pos, c.root_pos)),
             FracAdd(Norm(VecSub(c.joint_pos, c.root_pos)),
                     Norm(VecSub(c.effector_pos, c.joint_pos))))
  /\ FracLeq(FracAbs(FracSub(Norm(VecSub(c.joint_pos, c.root_pos)),
                             Norm(VecSub(c.effector_pos, c.joint_pos)))),
             Norm(VecSub(c.target_pos, c.root_pos)))

(* C10: whenever the target is within reach, on the original plane of      *)
(* root, joint and effector or off it, solve_two_bone_ik returns a joint   *)
(* and an effector with |new_joint - root| = |joint - root| and            *)
(* |new_effector - new_joint| = |effector - joint|.                        *)
BoneLengthsPreserved ==
  (pc = "solved" /\ Reachable(call)) =>
    /\ FracEq(DistSq(call.root_pos, ret.new_joint), DistSq(call.root_pos, call.joint_pos))
    /\ FracEq(DistSq(ret.new_joint, ret.new_effector), DistSq(call.joint_pos, call.effector_pos))

\* The offsets forward_kinematics worked with.
OffsetsGiven == IF call.offsets = None THEN SMPL_MEAN_OFFSETS ELSE call.offsets

\* The statement of C11 read for every offsets table, whatever its root row.
OffsetsRoundTripAnyTable ==
  pc = "inverted" =>
    \A i \in 1..NumJoints : ret.offsets[i] = OffsetsGiven[i]

(* C11: calculate_offsets_from_pose applied to the pose that               *)
(* forward_kinematics built from rotations R, a root position and offsets  *)
(* O whose root row is zero, together with R, gives O back for every       *)
(* joint.                                                                  *)
OffsetsRoundTrip ==
  (pc = "inverted" /\ OffsetsGiven[1] = Vec(0, 0, 0)) =>
    \A i \in 1..NumJoints : ret.offsets[i] = OffsetsGiven[i]

\* The left elbow and its ancestor the third spine joint both turned, the
\* wrist moved away from where the rest pose has it, and the root moved.
OffsetsRoundTripWitness ==
  /\ pc = "inverted"
  /\ call.rotations[10] # Identity3 /\ call.rotations[19] # Identity3
  /\ call.offsets = None
  /\ call.root_position # Vec(0, 0, 0)
  /\ ret.joints[21] # forward_kinematics(RotationSet(0, Identity3, 9, call.rotations[10]),
                                         call.root_position, call.offsets)[21]

\* The quaternions of joint j as the sign loop leaves them for the filter.
ContinuousQuats(j) ==
  EnsureContinuity([i \in 1..Len(call.smpl_poses) |-> from_matrix(call.smpl_poses[i][j])],
                   Len(call.smpl_poses))

\* The dot product of the smoothed quaternions of frames i and i + 1 of
\* joint j is negative: after line 50 it has the sign it has before.
SmoothedApart(quats_smooth, j, i) == QDot(quats_smooth[j][i], quats_smooth[j][i + 1]).num < 0

\* The statement of C12 for every sequence of rotations.
SmoothedDotsNeverNegative ==
  (pc = "smoothed" /\ ret.poses # <<>>) =>
    LET quats_smooth == SmoothedQuats(call.smpl_poses, call.sigma)
    IN \A j \in 1..Len(quats_smooth) : \A i \in 1..(Len(ret.poses) - 1) :
         ~SmoothedApart(quats_smooth, j, i)

(* C12: in smooth_pose_sequence, for every joint, the quaternions that     *)
(* enter the Gaussian filter never have a negative dot product between     *)
(* consecutive frames, and when no two of them, consecutive or not, have a *)
(* negative dot product, the smoothed quaternions of any two consecutive   *)
(* frames do not have one either.                                          *)
SmoothedDotsFollowInputs ==
  (pc = "smoothed" /\ ret.poses # <<>>) =>
    LET quats_smooth == SmoothedQuats(call.smpl_poses, call.sigma)
    IN \A j \in 1..Len(quats_smooth) :
         LET q == ContinuousQuats(j)
         IN /\ \A i \in 1..(Len(q) - 1) : QDot(q[i], q[i + 1]).num >= 0
            /\ (\A a, b \in 1..Len(q) : QDot(q[a], q[b]).num >= 0) =>
                 \A i \in 1..(Len(q) - 1) : ~SmoothedApart(quats_smooth, j, i)

\* Four different rotations of one joint, one of them with its sign changed
\* by the loop, and no two of the quaternions filtered pointing apart.
SmoothedDotsWitness ==
  /\ pc = "smoothed"
  /\ Len(call.smpl_poses) = 4
  /\ \A a, b \in 1..4 : a # b => call.smpl_poses[a][1] # call.smpl_poses[b][1]
  /\ \E i \in 1..4 : ContinuousQuats(1)[i] # from_matrix(call.smpl_poses[i][1])
  /\ \A a, b \in 1..4 : QDot(ContinuousQuats(1)[a], ContinuousQuats(1)[b]).num >= 0

\* The numeric score of the target entry of call.ref, its value being present.
NumericScoreOf(entry) ==
  calculate_smooth_score(call.metrics[entry.key][1], entry.target.target,
                         entry.target.inner_tol, entry.target.outer_tol)

(* C13: for every metric of the profile whose value is present,            *)
(* build_scores reports green exactly when its numeric score is >= 70,     *)
(* yellow exactly when it is >= 40 and < 70, and red exactly when it is    *)
(* < 40.                                                                   *)
BandFromScoreAlone ==
  pc = "built" =>
    \A k \in 1..Len(call.ref.targets) :
      LET entry == call.ref.targets[k]
      IN MetricValue(call.metrics, entry.key) # None =>
           LET s == NumericScoreOf(entry)
               band == ret.metric_scores[entry.key].score
           IN /\ band \in {"green", "yellow", "red"}
              /\ band = "green" <=> s.num >= 70 * s.den
              /\ band = "yellow" <=> (s.num >= 40 * s.den /\ s.num < 70 * s.den)
              /\ band = "red" <=> s.num < 40 * s.den

\* Scores of exactly 70, exactly 40 and below 40 in one table.
BandFromScoreWitness ==
  /\ pc = "built"
  /\ \A k \in 1..3 : MetricValue(call.metrics, call.ref.targets[k].key) # None
  /\ NumericScoreOf(call.ref.targets[1]) = Frac(70, 1)
  /\ NumericScoreOf(call.ref.targets[2]) = Frac(40, 1)
  /\ ret.metric_scores[call.ref.targets[3].key].score = "red"

\* The spellings of the face-on viewpoint that the lookup knows, in the
\* cases of letters the model has.
NamesFaceOn(view) ==
  view \in {Some(v) : v \in {"face_on", "Face_On", "faceon", "FaceOn", "front", "FRONT"}}

(* C14: for every club type and every view, get_reference_profile_for      *)
(* returns a ReferenceProfile for that club: with the face-on targets and  *)
(* the view face_on when the view is a spelling of face-on, and with the   *)
(* targets and the view of the default (down-the-line) profile for every   *)
(* other view, a missing, an empty and an unknown one included.            *)
ProfileForEveryPair ==
  pc = "profiled" =>
    /\ DOMAIN ret = {"name", "view", "club_type", "targets"}
    /\ ret.club_type = call.club_type
    /\ NamesFaceOn(call.view) => (ret.view = "face_on" /\ ret.targets = get_face_on_targets)
    /\ ~NamesFaceOn(call.view) =>
         (ret.view = get_default_profile.view /\ ret.targets = get_default_profile.targets)

\* The lookup has answered for a missing view.
ProfileForMissingView == pc = "profiled" /\ call.view = None /\ ret.view = "dtl"

\* Both wrists are in the address and the top frame, and their mean x is
\* smaller at the top.
WristsMovedLeft ==
  /\ Len(poses) > 0
  /\ At(poses, phases.address_frame).n_landmarks > IDX_R_WRIST
  /\ At(poses, phases.top_frame).n_landmarks > IDX_R_WRIST
  /\ WristX(At(poses, phases.top_frame)) < WristX(At(poses, phases.address_frame))

(* C15: detect_handedness returns Left exactly when the mean wrist x at    *)
(* the top frame is smaller than at the address frame and Right otherwise; *)
(* estimate_club_type returns Driver for a backswing longer than 1000 ms,  *)
(* Iron for one longer than 800 ms and at most 1000 ms, Wedge otherwise.   *)
AutoDetectionRules ==
  /\ pc \in {"handed", "clubbed"} =>
       ret.handedness = Returned(IF WristsMovedLeft THEN "Left" ELSE "Right")
  /\ pc = "clubbed" =>
       LET bs_ms == call.metrics.backswing_duration_ms
       IN ret.club_type =
            Returned(IF bs_ms # None /\ bs_ms[1] > 1000 * MUnit THEN "Driver"
                     ELSE IF bs_ms # None /\ bs_ms[1] > 800 * MUnit THEN "Iron"
                     ELSE "Wedge")

(* C16: scoring the poor swing of test_bad_dtl_swing against the           *)
(* down-the-line profile gives an overall score below 50 and the band red  *)
(* for each of tempo_ratio, head_sway_range and early_extension_amount.    *)
BadSwingScoredPoor ==
  (pc = "swing_scored" /\ call.metrics = bad_dtl_swing) =>
    /\ ret.overall_score < 50
    /\ ret.metric_scores["tempo_ratio"].score = "red"
    /\ ret.metric_scores["head_sway_range"].score = "red"
    /\ ret.metric_scores["early_extension_amount"].score = "red"

(* C17: scoring the good swing of test_good_dtl_swing against the          *)
(* down-the-line profile gives an overall score between 85 and 95          *)
(* inclusive, the band green for tempo_ratio, and a band other than red    *)
(* for chest_turn_top_deg and for lead_arm_impact_deg.                     *)
GoodSwingScoredWell ==
  (pc = "swing_scored" /\ call.metrics = good_dtl_swing) =>
    /\ ret.overall_score >= 85
    /\ ret.overall_score <= 95
    /\ ret.metric_scores["tempo_ratio"].score = "green"
    /\ ret.metric_scores["chest_turn_top_deg"].score # "red"
    /\ ret.metric_scores["lead_arm_impact_deg"].score # "red"

(* C18: assess_skill_level returns a level for every metrics table and     *)
(* every overall score, and the level follows from the overall score       *)
(* alone: Pro for 90 and above, Advanced for 80 to 89, Intermediate for 60 *)
(* to 79, Beginner below 60.                                               *)
SkillLevelFromScoreAlone ==
  pc = "assessed" =>
    LET overall_score == call.scores.overall_score
    IN ret = Returned(IF overall_score >= 90 THEN "Pro"
                      ELSE IF overall_score >= 80 THEN "Advanced"
                      ELSE IF overall_score >= 60 THEN "Intermediate"
                      ELSE "Beginner")

(* C19: cancel_job changes a job only when its status is PENDING, setting  *)
(* it to FAILED with the message 'Cancelled by user'; for a job that is    *)
(* PROCESSING, COMPLETED or FAILED it answers with an error and leaves the *)
(* job's status unchanged, also when the worker picks the job up while the *)
(* cancel request is being handled.                                        *)
CancelOnlyPending ==
  [][(pc.handler = "queried" /\ pc'.handler = "idle") =>
       LET job_id == call.job[1].id
       IN IF analysis_jobs[job_id].status = "pending"
          THEN /\ ret'.analysis_jobs[job_id].status = "failed"
               /\ ret'.analysis_jobs[job_id].error_message = Some("Cancelled by user")
               /\ call'.response = Some(200)
          ELSE /\ ret'.analysis_jobs[job_id] = analysis_jobs[job_id]
               /\ call'.response = Some(400)]_vars

(* C20: after cancel_job has succeeded for a job, the job's status stays   *)
(* FAILED with 'Cancelled by user', it never becomes PROCESSING or         *)
(* COMPLETED, and no analysis session is stored for it.                    *)
CancelledStaysCancelled ==
  \A job_id \in ret.cancelled :
    /\ analysis_jobs[job_id].status = "failed"
    /\ analysis_jobs[job_id].error_message = Some("Cancelled by user")
    /\ job_id \notin ret.swing_sessions

\* The values detect_swing_phases held before its safety checks.
top_frame == phases.raw[2]

impact_frame == phases.raw[3]

finish_frame == phases.raw[4]

\* The height has risen from frame 0 to frame i by at least 8% of the range
\* of the smoothed heights.
RisenOfRange(i) ==
  \E lo \in 1..Len(poses), hi \in 1..Len(poses) :
    /\ \A k \in 1..Len(poses) : ret.smooth_ys[lo] <= ret.smooth_ys[k]
                                /\ ret.smooth_ys[k] <= ret.smooth_ys[hi]
    /\ 100 * (At(ret.smooth_ys, 0) - At(ret.smooth_ys, i))
         >= 8 * (ret.smooth_ys[hi] - ret.smooth_ys[lo])

VelocityCrosses(i) == At(ret.velocity, i - 1) <= 0 /\ At(ret.velocity, i) > 0

\* Frame i is a top as C21 states it, at any index that has a predecessor.
TopAsStated(i) ==
  /\ RisenOfRange(i)
  /\ VelocityCrosses(i)
  /\ \A k \in Max2(0, i - 3)..Min2(Len(poses) - 1, i + 3) :
       At(ret.smooth_ys, i) <= At(ret.smooth_ys, k)

\* Frame i is a top as the loop tests it: inside range(5, total_frames - 5),
\* more than 0.08 above frame 0, and lower than the frames 3 before and 3 after.
TopInLoop(i) ==
  /\ 5 <= i /\ i < Len(poses) - 5
  /\ At(ret.smooth_ys, 0) - At(ret.smooth_ys, i) > (8 * SUnit) \div 100
  /\ VelocityCrosses(i)
  /\ At(ret.smooth_ys, i) < At(ret.smooth_ys, i - 3)
  /\ At(ret.smooth_ys, i) < At(ret.smooth_ys, i + 3)

\* Frame i holds the first lowest value of the first 60% of the frames.
LowestOfFirst60(i) ==
  /\ 0 <= i /\ i < (Len(poses) * 6) \div 10
  /\ \A k \in 0..((Len(poses) * 6) \div 10 - 1) :
       /\ At(ret.smooth_ys, i) <= At(ret.smooth_ys, k)
       /\ k < i => At(ret.smooth_ys, i) < At(ret.smooth_ys, k)

StatedWindow ==
  {i \in 0..(Len(poses) - 1) : top_frame + 3 <= i /\ i < top_frame + fps \div 2}

\* The window the code searches: it stops 5 frames before the end of the
\* sequence, and runs for up to 15 frames when that leaves nothing.
SearchWindow ==
  LET search_start == top_frame + 3
      search_end == Min2(Len(poses) - 5, top_frame + fps \div 2)
  IN IF search_end <= search_start
     THEN search_start..(Min2(Len(poses) - 1, search_start + 15) - 1)
     ELSE search_start..(search_end - 1)

\* The first frame of w that holds the largest value of signal over w.
FirstPeak(signal, w, i) ==
  /\ i \in w
  /\ \A k \in w : /\ At(signal, k) <= At(signal, i)
                  /\ k < i => At(signal, k) < At(signal, i)

\* The hands at frame i are more than 0.04 above the lowest they have been
\* in the window before i.
HandsRisen(i) ==
  \E j \in SearchWindow :
    /\ j < i
    /\ At(ret.smooth_ys, j) > 0
    /\ At(ret.smooth_ys, j) - At(ret.smooth_ys, i) > (4 * SUnit) \div 100

\* The frames of the window before the first one at which the hands have risen.
ScannedWindow == {i \in SearchWindow : \A k \in SearchWindow : k <= i => ~HandsRisen(k)}

\* The blend of the two frames, 7 parts to 3, as a whole frame.
StatedBlend(by_position, by_velocity) ==
  IF Abs(by_position - by_velocity) <= 3 THEN by_position
  ELSE (7 * by_position + 3 * by_velocity) \div 10

HighestHands(w, i) ==
  /\ i \in w
  /\ \A k \in w : /\ At(ret.smooth_ys, i) <= At(ret.smooth_ys, k)
                  /\ k < i => At(ret.smooth_ys, i) < At(ret.smooth_ys, k)

MissingFramesReusePrevious ==
  pc = "detected" =>
    /\ Len(ret.wrist_ys) = Len(poses)
    /\ \A k \in 1..Len(poses) :
         /\ ret.wrist_ys[k] \in Int
         /\ (k > 1 /\ poses[k].n_landmarks <= IDX_R_WRIST) =>
              ret.wrist_ys[k] = ret.wrist_ys[k - 1]

\* The sequence opens with a frame without wrists, and two frames without
\* them in a row follow a frame whose hands are high.
MissingFramesWitness ==
  /\ pc = "detected"
  /\ Len(poses) >= 4
  /\ poses[1].n_landmarks <= IDX_R_WRIST
  /\ \E k \in 2..(Len(poses) - 2) :
       /\ poses[k].n_landmarks > IDX_R_WRIST /\ poses[k].shape = "high"
       /\ poses[k + 1].n_landmarks <= IDX_R_WRIST
       /\ poses[k + 2].n_landmarks <= IDX_R_WRIST
       /\ ret.wrist_ys[k + 2] = ret.wrist_ys[k]
       /\ ret.wrist_ys[k] # ret.wrist_ys[1]

(* C25: compute_metrics sets tempo_ratio to (top_time - address_time) /    *)
(* (impact_time - top_time) from the timestamps of the address, top and    *)
(* impact frames, and to 0.0 without dividing when impact_time - top_time  *)
(* is not positive; the returned table holds that value to two decimals.   *)
TempoRatioFromTimestamps ==
  pc = "tempo" =>
    LET top_time == poses[Min2(phases.top_frame, Len(poses) - 1) + 1].timestamp_ms
        address_time == poses[Min2(phases.address_frame, Len(poses) - 1) + 1].timestamp_ms
        impact_time == poses[Min2(phases.impact_frame, Len(poses) - 1) + 1].timestamp_ms
    IN /\ call.tempo_ratio.den > 0
       /\ IF impact_time - top_time > 0
          THEN call.tempo_ratio.num * (impact_time - top_time)
                 = (top_time - address_time) * call.tempo_ratio.den
          ELSE call.tempo_ratio.num = 0
       /\ ~IsRaised(ret) =>
            /\ ret.tempo_ratio # None
            /\ 2 * Abs(ret.tempo_ratio[1] * call.tempo_ratio.den
                         - MUnit * call.tempo_ratio.num)
                 <= (MUnit \div 100) * call.tempo_ratio.den

\* The impact frame is the top frame, after a backswing of two frames:
\* nothing is divided and 0 is returned.
TempoRatioWitness ==
  /\ pc = "tempo"
  /\ ~IsRaised(ret)
  /\ phases.top_frame - phases.address_frame = 2
  /\ phases.impact_frame = phases.top_frame
  /\ phases.top_frame < Len(poses)
  /\ call.t_top - call.t_address = 2 * FrameMs
  /\ call.tempo_ratio.num = 0
  /\ ret.tempo_ratio = Some(0)
\* The lengths of the two bones and the distance of the target, as called.
BoneL1 == Norm(VecSub(call.joint_pos, call.root_pos))

BoneL2 == Norm(VecSub(call.effector_pos, call.joint_pos))

TargetDist == Norm(VecSub(call.target_pos, call.root_pos))

\* p lies on the ray from the root through the target, at distance d.
OnTargetRay(p, d) ==
  /\ Cross(VecSub(p, call.root_pos), VecSub(call.target_pos, call.root_pos)) = Vec(0, 0, 0)
  /\ ~FracLt(Dot(VecSub(p, call.root_pos), VecSub(call.target_pos, call.root_pos)), Frac(0, 1))
  /\ FracEq(DistSq(call.root_pos, p), FracMul(d, d))

(* C26: solve_two_bone_ik does not raise on an unreachable target: with    *)
(* the target farther from the root than L1 + L2 it returns the chain      *)
(* fully extended toward the target, and with the target nearer than       *)
(* |L1 - L2| it returns the input joint and effector positions unchanged.  *)
UnreachableTargetDegrades ==
  pc = "solved" =>
    /\ DOMAIN ret = {"new_joint", "new_effector"}
    /\ FracLt(FracAdd(BoneL1, BoneL2), TargetDist) =>
         /\ OnTargetRay(ret.new_joint, BoneL1)
         /\ OnTargetRay(ret.new_effector, FracAdd(BoneL1, BoneL2))
    /\ FracLt(TargetDist, FracAbs(FracSub(BoneL1, BoneL2))) =>
         /\ ret.new_joint = call.joint_pos
         /\ ret.new_effector = call.effector_pos

\* A bent arm of bones 1 and 2 with the target at distance 5 off the
\* arm's plane: the joint and the effector move onto the line to the
\* target, the effector 3 from the root and short of the target.
UnreachableTargetWitness ==
  /\ pc = "solved"
  /\ BoneL1 = Frac(1, 1) /\ BoneL2 = Frac(2, 1)
  /\ TargetDist = Frac(5, 1)
  /\ Cross(VecSub(call.joint_pos, call.root_pos), VecSub(call.effector_pos, call.joint_pos))
       # Vec(0, 0, 0)
  /\ Dot(Cross(VecSub(call.joint_pos, call.root_pos), VecSub(call.effector_pos, call.joint_pos)),
         VecSub(call.target_pos, call.root_pos)).num # 0
  /\ ret.new_joint # call.joint_pos
  /\ ret.new_effector # call.target_pos
  /\ FracEq(DistSq(call.root_pos, ret.new_effector), Frac(9, 1))

\* JobStatus.COMPLETED or JobStatus.FAILED
FinalStatus(job_id) ==
  /\ job_id <= Len(analysis_jobs)
  /\ analysis_jobs[job_id].status \in {"completed", "failed"}

\* The worker holds the message of the job and the job's row exists.
DequeuedWithRow(job_id) ==
  /\ pc.worker = "dequeued"
  /\ call.message = Some(job_id)
  /\ job_id <= Len(analysis_jobs)

InProcessing(job_id) ==
  /\ job_id <= Len(analysis_jobs)
  /\ analysis_jobs[job_id].status = "processing"

RECURSIVE Ancestor(_, _)
Ancestor(i, k) ==
  IF k = 0 \/ SMPL_PARENTS[i + 1] = -1 THEN i ELSE Ancestor(SMPL_PARENTS[i + 1], k - 1)

\* The global rotation and position of joint i as the tree defines them,
\* from the joint's parent chain and not from the joints before it.
RECURSIVE TreeRotation(_, _)
TreeRotation(rots, i) ==
  IF SMPL_PARENTS[i + 1] = -1 THEN rots[i + 1]
  ELSE MatMul(TreeRotation(rots, SMPL_PARENTS[i + 1]), rots[i + 1])

RECURSIVE TreePosition(_, _, _, _)
TreePosition(rots, root_pos, offsets, i) ==
  IF SMPL_PARENTS[i + 1] = -1 THEN root_pos
  ELSE VecAdd(TreePosition(rots, root_pos, offsets, SMPL_PARENTS[i + 1]),
              MatVec(TreeRotation(rots, SMPL_PARENTS[i + 1]), offsets[i + 1]))

(* C29: the kinematic tree is a well-formed tree of 24 joints: joint 0 is  *)
(* the only root (parent -1) and every other joint's parent has a smaller  *)
(* index, so every parent chain ends at the root and the one pass of       *)
(* forward_kinematics in index order has each parent's global rotation and *)
(* position before it computes a child.                                    *)
KinematicTreeWellFormed ==
  /\ NumJoints = 24
  /\ Len(SMPL_PARENTS) = NumJoints
  /\ \A i \in 0..(NumJoints - 1) : (SMPL_PARENTS[i + 1] = -1) <=> (i = 0)
  /\ \A i \in 1..(NumJoints - 1) : SMPL_PARENTS[i + 1] \in 0..(i - 1)
  /\ \A i \in 0..(NumJoints - 1) : Ancestor(i, NumJoints - 1) = 0
  /\ ("joints" \in DOMAIN ret) =>
       \A i \in 0..(NumJoints - 1) :
         ret.joints[i + 1] = TreePosition(call.rotations, call.root_position, OffsetsGiven, i)

\* The third spine joint and the left elbow turned: the left hand, eight
\* joints down the chain from the pelvis, is where its chain puts it and not
\* where it is with the elbow straight.
KinematicTreeWitness ==
  /\ pc = "posed"
  /\ call.rotations[10] # Identity3 /\ call.rotations[19] # Identity3
  /\ call.rotations[1] = Identity3
  /\ Ancestor(22, 7) = 3 /\ Ancestor(22, 8) = 0
  /\ ret.joints[23] = TreePosition(call.rotations, call.root_position, OffsetsGiven, 22)
  /\ ret.joints[23] # TreePosition(RotationSet(0, Identity3, 9, call.rotations[10]),
                                   call.root_position, OffsetsGiven, 22)

\* The returned value is in [-180, 180] and a whole number of turns away
\* from angle2 - angle1.
NormalizedDiff ==
  /\ ret.kind = "exact"
  /\ ret.n >= -180 /\ ret.n <= 180
  /\ FloatSub(call.angle2, call.angle1).kind = "exact"
  /\ (ret.n - FloatSub(call.angle2, call.angle1).n) % 360 = 0

(* C30: for all finite angles a1 and a2, _normalize_angle_diff(a1, a2)     *)
(* terminates and returns a value in [-180, 180] that differs from a2 - a1 *)
(* by a whole multiple of 360.                                             *)
NormalizeAngleDiffReturns ==
  /\ <>(pc = "returned")
  /\ [](pc = "returned" => NormalizedDiff)

====
